---- MODULE Spec2Model ----
(***************************************************************************)
(* Process supervisor of amps (src/amps/ffmpeg_utils.py): the registry     *)
(* RUNNING_PROCESSES of transcoder processes, get_or_start_stream_process, *)
(* stop_stream_process and cleanup_all_processes, run by concurrent        *)
(* request threads and scheduler threads.  Every read or write of the      *)
(* shared dictionary is one step; a thread may be pre-empted between any   *)
(* two of them.                                                            *)
(***************************************************************************)
EXTENDS Integers, Sequences, FiniteSets, TLC

\* ---------------------------------------------------------------- bounds
MaxCalls == 3        \* calls of the supervisor's functions made by the callers

MaxClock == 1        \* readings of the clock: 0..MaxClock

Threads == {"t1", "t2"}
StreamIds == {1}
DEFAULT_VARIANT_KEY == "default"
Variants == {DEFAULT_VARIANT_KEY, "hd"}
AUDIO_VARIANT == "audio"

\* f"{base_variant}-overlap-{int(time.time() * 1000)}"
overlap_variant(base, ms) ==
    IF base = DEFAULT_VARIANT_KEY
    THEN <<"default-overlap-0", "default-overlap-1", "default-overlap-2">>[ms + 1]
    ELSE <<"hd-overlap-0", "hd-overlap-1", "hd-overlap-2">>[ms + 1]

\* variant keys the request handlers can pass as process_variant
ProcessVariants ==
    Variants \cup {AUDIO_VARIANT}
        \cup {overlap_variant(b, ms) : b \in Variants, ms \in 0..MaxClock}

\* process keys used by the callers: (stream_id, variant_key)
Keys == {<<1, v>> : v \in ProcessVariants} \cup {<<2, v>> : v \in Variants}

NoEntry == 0         \* key absent from the dictionary / no reference
NoHandle == 0        \* Python None in a 'process' slot or as a return value
NoThread == "none"
NoVariant == "None"  \* process_variant=None
NoKey == <<0, "None">>
MapIds == {1, 2}     \* stream ids of the configuration
NoDef == 0           \* id absent from stream_map
StaticDef == 10      \* the definition of stream 1 in config['streams']
UpdatedDef == 11     \* a definition after PUT /api/streams/<id> has changed its source
AddedDef == 12       \* a definition that POST /api/streams has stored
NoTime == -1         \* Python None where a datetime is expected

Entries == 1..MaxCalls   \* a call creates at most one registry entry (dict + Lock)
Handles == 1..MaxCalls   \* and makes at most one process

VARIABLES
    RUNNING_PROCESSES,  \* key -> entry reference (NoEntry when the key is absent)
    regOrder,           \* keys of the dictionary in insertion order
    nextEntry,          \* next fresh entry object
    entProc,            \* entry -> its 'process' slot
    lockOwner,          \* entry -> thread holding its 'lock'
    nextHandle,         \* next fresh Popen object
    pstate,             \* handle -> "unborn" | "running" | "termed" | "killed" | "exited"
    pc,                 \* thread -> position in the code
    frame,              \* thread -> local variables of the running call
    calls,              \* calls started so far
    hkey,               \* history: handle -> key of the call that spawned it
    hcfg,               \* history: handle -> stream_config of the call that spawned it
    termCount,          \* history: handle -> terminate() calls received
    killCount,          \* history: handle -> kill() calls received
    stoppedDone,        \* history: handles removed by a stop call that has returned
    quiet,              \* history: no stop, cleanup, process exit or failed start so far
    stream_map,         \* app.config['stream_map']: stream id -> definition
    req,                \* thread -> the request handler or scheduler job it runs
    clock,              \* time.time() in milliseconds / the scheduler's clock
    written,            \* handle -> chunks the process has written to its stdout
    scheduled_streams,  \* app.config['scheduled_streams']
    static_stream,      \* the definition of stream 1 in config['streams']
    loader,             \* position of setup_scheduled_streams in create_app
    jobs,               \* the scheduler's date jobs: job id -> run date and argument
    plan,               \* the invocation that the start of a process is building
    disk                \* output directory of a process key -> exists, files

vars == <<RUNNING_PROCESSES, regOrder, nextEntry, entProc, lockOwner, nextHandle,
          pstate, pc, frame, calls, hkey, hcfg, termCount, killCount, stoppedDone, quiet,
          stream_map, req, clock, written, scheduled_streams, static_stream, loader,
          jobs, plan, disk>>

shared == <<RUNNING_PROCESSES, regOrder, nextEntry, entProc, lockOwner>>
procs == <<nextHandle, pstate, hkey, hcfg, termCount, killCount>>
hist == <<stoppedDone, quiet>>
web == <<stream_map, clock, written>>
planning == <<plan, disk>>
conf == <<scheduled_streams, static_stream, planning>>
sch == <<conf, loader, jobs>>
outer == <<web, sch>>

\* ------------------------------------------------------------- helpers
\* process.poll() is None
poll_is_None(h) == pstate[h] \in {"running", "termed", "killed"}

\* `process and process.poll() is None`
is_running(h) == h # NoHandle /\ poll_is_None(h)

\* key in RUNNING_PROCESSES
key_present(k) == RUNNING_PROCESSES[k] # NoEntry

\* the running process cached under key k, if any
cached_running(k) ==
    IF key_present(k) /\ is_running(entProc[RUNNING_PROCESSES[k]])
    THEN entProc[RUNNING_PROCESSES[k]] ELSE NoHandle

\* the handles cached in the entries of the dictionary
RegisteredHandles == {entProc[RUNNING_PROCESSES[k]] : k \in {x \in Keys : key_present(x)}}
    \ {NoHandle}

RECURSIVE SeqRemove(_, _)
SeqRemove(s, x) ==
    IF s = <<>> THEN <<>>
    ELSE IF Head(s) = x THEN SeqRemove(Tail(s), x)
    ELSE <<Head(s)>> \o SeqRemove(Tail(s), x)

RECURSIVE SeqFilter(_, _, _)
\* keys of s with key[0] == sid and (variant is None or key[1] == variant)
SeqFilter(s, sid, variant) ==
    IF s = <<>> THEN <<>>
    ELSE IF Head(s)[1] = sid /\ (variant = NoVariant \/ Head(s)[2] = variant)
         THEN <<Head(s)>> \o SeqFilter(Tail(s), sid, variant)
         ELSE SeqFilter(Tail(s), sid, variant)

RECURSIVE SortedIds(_)
\* iteration order of a set of small ints
SortedIds(S) ==
    IF S = {} THEN <<>>
    ELSE LET m == CHOOSE x \in S : \A y \in S : x <= y
         IN <<m>> \o SortedIds(S \ {m})

\* ------------------------------------------------- channel definitions
\* custom_ffmpeg of a definition: absent, a command string, a mapping with its
\* 'command', 'env' and 'cwd' entries, or a value of another type (a list)
CustomFfmpeg(k, c, e, w) == [kind |-> k, command |-> c, env |-> e, cwd |-> w]
NoCustom == CustomFfmpeg("absent", "missing", "absent", "absent")
CustomString == CustomFfmpeg("str", "missing", "absent", "absent")
CustomList == CustomFfmpeg("list", "missing", "absent", "absent")
CustomMappings == {CustomFfmpeg("dict", c, e, w) :
                       c \in {"missing", "str", "list", "int"},
                       e \in {"absent", "dict", "list"},
                       w \in {"absent", "str", "int"}}

NoSource == ""       \* no 'source', or an empty one
NoProfile == "None"  \* no 'ffmpeg_profile'

\* an entry of adaptive_bitrates that replaces the source and the input options
\* and arguments
VariantHd ==
    [name |-> "hd", bandwidth |-> 2, source |-> "src-hd", input_options |-> {"rw"},
     input_args |-> <<"-re">>]

\* an entry of adaptive_bitrates that replaces the profile, the custom command
\* and the source handler
VariantHdCustom ==
    [name |-> "hd", ffmpeg_profile |-> NoProfile, custom_ffmpeg |-> CustomString,
     source_handler |-> "yt_dlp"]

\* entries of adaptive_bitrates that are named like the key of the audio
\* route and like the key of the base definition
VariantAudio == [name |-> AUDIO_VARIANT, source |-> "src-hd"]
VariantDefault == [name |-> DEFAULT_VARIANT_KEY, source |-> "src-hd"]

\* a stream of config['streams'] with a source, a profile of
\* config['ffmpeg_profiles'], one variant and a blocked region
DefaultStream ==
    [name |-> "one", source |-> "src", ffmpeg_profile |-> "p", custom_ffmpeg |-> NoCustom,
     input_options |-> {"timeout"}, input_args |-> <<"-nostdin">>,
     source_handler |-> "none", use_yt_dlp |-> FALSE, yt_dlp_format |-> "None",
     adaptive_bitrates |-> <<VariantHd>>,
     regions_allowed |-> {}, regions_blocked |-> {"xx"}]

\* the definition stored under a value of stream_map: the static stream, or a
\* scheduled entry
definition(d) ==
    IF d = StaticDef THEN static_stream
    ELSE IF d = UpdatedDef THEN [DefaultStream EXCEPT !.source = "src-new"]
    ELSE IF d = AddedDef THEN [DefaultStream EXCEPT !.source = "src-api"]
    ELSE DefaultStream

\* names of config['ffmpeg_profiles']
ffmpeg_profiles == {"p"}

\* _prepare_custom_ffmpeg_command, lines 110-154: None (command "None") when
\* custom_ffmpeg is absent, is neither a string nor a mapping, has no 'command'
\* or has one that is neither a string nor a list; an 'env' that is not a
\* mapping is replaced by None; 'cwd' is passed on as it is
prepare_custom_ffmpeg_command(stream_config) ==
    LET custom_conf == stream_config.custom_ffmpeg IN
    IF custom_conf.kind = "str"
    THEN [command |-> "str", env |-> "None", cwd |-> "absent"]
    ELSE IF custom_conf.kind = "dict" /\ custom_conf.command \in {"str", "list"}
    THEN [command |-> custom_conf.command,
          env |-> IF custom_conf.env = "dict" THEN "dict" ELSE "None",
          cwd |-> custom_conf.cwd]
    ELSE [command |-> "None", env |-> "None", cwd |-> "absent"]

\* _resolve_stream_source, lines 29-32: no source, nothing to resolve
resolve_stream_source(stream_config) == stream_config.source

\* lines 293-319: `if custom_command:` Popen runs the custom command (a cwd
\* that is no path makes Popen raise), `else:` the profile-based invocation
\* is built from the resolved source; "none" when no process can come of it
launch_plan(stream_config) ==
    LET custom_command == prepare_custom_ffmpeg_command(stream_config) IN
    IF custom_command.command # "None"
    THEN (IF custom_command.cwd = "int" THEN "none" ELSE "custom")
    ELSE IF resolve_stream_source(stream_config) # NoSource THEN "profile"
    ELSE "none"

\* Python None where a stream_config is expected
NoConfig == [name |-> "None"]

EmptyFrame ==
    [op |-> "none", key |-> NoKey, lockRef |-> NoEntry, procData |-> NoEntry,
     process |-> NoHandle, result |-> NoHandle, attempts |-> 0,
     keys |-> <<>>, idx |-> 1, ids |-> <<>>, caller |-> "none",
     popped |-> {}, stoppedAtStart |-> {}, cachedAtStart |-> NoHandle, freshFrom |-> 1,
     registeredAtStart |-> {}, stream_config |-> NoConfig]

\* the handler or job a thread runs around its calls of the supervisor
EmptyReq ==
    [op |-> "none", at |-> "none", sid |-> 0, variant |-> NoVariant, overlap |-> FALSE,
     def |-> NoDef, ret |-> NoHandle, base |-> 0, received |-> 0, status |-> 0,
     noG |-> FALSE, region |-> "none", asked |-> NoVariant, cfg |-> NoConfig]

\* the call of the supervisor made by a handler returns value v to it
returned_to(r, t, v) ==
    IF r[t].at = "wait"
    THEN [r EXCEPT ![t].at = "back", ![t].ret = v,
                   ![t].base = IF v = NoHandle THEN 0 ELSE written[v]]
    ELSE [r EXCEPT ![t] = EmptyReq]

\* the call of the supervisor made by a handler raises: the exception leaves the
\* handler too (an error response, a failed job)
raised_to(r, t) ==
    IF r[t].at = "wait" THEN [r EXCEPT ![t].at = "done", ![t].status = 500]
    ELSE [r EXCEPT ![t] = EmptyReq]

\* history: a viewer request or a get_or_start call begins while other
\* operations are under way
get_or_start_begins(r) == [u \in Threads |-> [r[u] EXCEPT !.noG = FALSE]]

NoJob == [run |-> NoTime, def |-> NoDef, src |-> 0]
\* no start of a process is building an invocation; no output directory is
\* looked at
NoPlan == [at |-> "none"]
NoDisk == <<>>
JobIds == MapIds \X {"activate", "deactivate"}

\* ---------------------------------------------------------------- Init
\* the supervisor at import: an empty dictionary, no process, threads at rest
InitSupervisor ==
    /\ RUNNING_PROCESSES = [k \in Keys |-> NoEntry]
    /\ regOrder = <<>>
    /\ nextEntry = 1
    /\ entProc = [e \in Entries |-> NoHandle]
    /\ lockOwner = [e \in Entries |-> NoThread]
    /\ nextHandle = 1
    /\ pstate = [h \in Handles |-> "unborn"]
    /\ pc = [t \in Threads |-> "idle"]
    /\ frame = [t \in Threads |-> EmptyFrame]
    /\ hkey = [h \in Handles |-> NoKey]
    /\ hcfg = [h \in Handles |-> NoConfig]
    /\ termCount = [h \in Handles |-> 0]
    /\ killCount = [h \in Handles |-> 0]
    /\ calls = 0
    /\ stoppedDone = {}
    /\ quiet = TRUE
    /\ req = [t \in Threads |-> EmptyReq]
    /\ written = [h \in Handles |-> 0]

\* the supervisor of an application that serves the static stream 1 and has no
\* scheduled stream
Init ==
    /\ InitSupervisor
    /\ stream_map = [i \in MapIds |-> IF i = 1 THEN StaticDef ELSE NoDef]
    /\ clock = 0
    /\ scheduled_streams = <<>>
    /\ static_stream = DefaultStream
    /\ loader = [pos |-> 1, now |-> 0, at |-> "entry"]
    /\ jobs = [j \in JobIds |-> NoJob]
    /\ plan = NoPlan /\ disk = NoDisk

\* ------------------------------------------- get_or_start_stream_process
\* variant_key = process_variant or DEFAULT_VARIANT_KEY; process_key = (stream_id, variant_key)
process_key(sid, pv) == <<sid, IF pv = NoVariant THEN DEFAULT_VARIANT_KEY ELSE pv>>

\* variant of entry_of that looks the entry up under the first key of the dictionary
entry_of_first_key(k) ==
    IF regOrder # <<>> THEN RUNNING_PROCESSES[regOrder[1]] ELSE RUNNING_PROCESSES[k]

\* RUNNING_PROCESSES[process_key] inside the critical section
entry_of(k) == RUNNING_PROCESSES[k]

\* variant of pc_after_failed_start that retries the start inside the call
pc_retry_failed_start == "g_spawn"

\* the except handlers return None: the call ends, nothing is retried
pc_after_failed_start == "g_exit"

\* variant of slot_after_failed_start that caches the handle before the thread start
slot_cached_before_thread(ep, e, h) == [ep EXCEPT ![e] = h]

\* the stderr thread is started before the handle is cached, so a start that
\* raises there leaves the 'process' slot as it was
slot_after_failed_start(ep, e, h) == ep

\* variant of release that keeps the lock held
release_kept(lo, e) == lo

\* leaving the `with` block
release(lo, e) == [lo EXCEPT ![e] = NoThread]

\* the locals of a call for key k, with the history the call starts from
get_or_start_frame(k, stream_config) ==
    [EmptyFrame EXCEPT !.op = "get_or_start", !.key = k,
                       !.stream_config = stream_config,
                       !.stoppedAtStart = stoppedDone,
                       !.cachedAtStart = cached_running(k),
                       !.freshFrom = IF key_present(k) THEN 1 ELSE nextHandle]

\* line 271: `if process_key not in RUNNING_PROCESSES`
get_or_start_pc(k) == IF key_present(k) THEN "g_lockref" ELSE "g_insert"

\* lines 264-271: compute the key, test `process_key not in RUNNING_PROCESSES`
get_or_start_stream_process(t, sid, pv) ==
    /\ pc[t] = "idle"
    /\ calls < MaxCalls
    /\ process_key(sid, pv) \in Keys
    /\ calls' = calls + 1
    /\ frame' = [frame EXCEPT ![t] = get_or_start_frame(process_key(sid, pv),
                                                        definition(stream_map[sid]))]
    /\ pc' = [pc EXCEPT ![t] = get_or_start_pc(process_key(sid, pv))]
    /\ req' = get_or_start_begins(req)
    /\ UNCHANGED <<shared, procs, hist, outer>>

\* lines 272-275: RUNNING_PROCESSES[process_key] = {'process': None, 'lock': Lock()}
g_insert(t) ==
    /\ pc[t] = "g_insert"
    /\ nextEntry <= MaxCalls
    /\ LET k == frame[t].key IN
        /\ RUNNING_PROCESSES' = [RUNNING_PROCESSES EXCEPT ![k] = nextEntry]
        /\ regOrder' = IF key_present(k) THEN regOrder ELSE Append(regOrder, k)
    /\ nextEntry' = nextEntry + 1
    /\ pc' = [pc EXCEPT ![t] = "g_lockref"]
    /\ UNCHANGED <<entProc, lockOwner, procs, frame, hist, calls>>
    /\ UNCHANGED <<req, outer>>

\* line 277: evaluate RUNNING_PROCESSES[process_key]['lock'] (KeyError if the key is gone)
g_lockref(t) ==
    /\ pc[t] = "g_lockref"
    /\ LET k == frame[t].key IN
        IF key_present(k)
        THEN /\ frame' = [frame EXCEPT ![t].lockRef = RUNNING_PROCESSES[k]]
             /\ pc' = [pc EXCEPT ![t] = "g_acquire"]
        ELSE /\ frame' = frame
             /\ pc' = [pc EXCEPT ![t] = "raised"]
    /\ UNCHANGED <<shared, procs, hist, calls>>
    /\ UNCHANGED <<req, outer>>

\* line 277: `with lock:` blocks until the lock is free
g_acquire(t) ==
    /\ pc[t] = "g_acquire"
    /\ lockOwner[frame[t].lockRef] = NoThread
    /\ lockOwner' = [lockOwner EXCEPT ![frame[t].lockRef] = t]
    /\ pc' = [pc EXCEPT ![t] = "g_lookup"]
    /\ UNCHANGED <<RUNNING_PROCESSES, regOrder, nextEntry, entProc, procs, frame,
                   hist, calls>>
    /\ UNCHANGED <<req, outer>>

\* line 278: proc_data = RUNNING_PROCESSES[process_key] (KeyError leaves the with block)
g_lookup(t) ==
    /\ pc[t] = "g_lookup"
    /\ LET k == frame[t].key IN
        IF entry_of(k) # NoEntry
        THEN /\ frame' = [frame EXCEPT ![t].procData = entry_of(k)]
             /\ pc' = [pc EXCEPT ![t] = "g_poll"]
             /\ lockOwner' = lockOwner
        ELSE /\ frame' = [frame EXCEPT ![t].lockRef = NoEntry]
             /\ pc' = [pc EXCEPT ![t] = "raised"]
             /\ lockOwner' = release(lockOwner, frame[t].lockRef)
    /\ UNCHANGED <<RUNNING_PROCESSES, regOrder, nextEntry, entProc, procs, hist, calls>>
    /\ UNCHANGED <<req, outer>>

\* lines 279-289: process = proc_data.get('process'); reuse it when it is running
g_poll(t) ==
    /\ pc[t] = "g_poll"
    /\ LET h == entProc[frame[t].procData] IN
        IF is_running(h)
        THEN /\ frame' = [frame EXCEPT ![t].process = h, ![t].result = h]
             /\ pc' = [pc EXCEPT ![t] = "g_exit"]
        ELSE /\ frame' = [frame EXCEPT ![t].process = h]
             /\ pc' = [pc EXCEPT ![t] = "g_spawn"]
    /\ UNCHANGED <<shared, procs, hist, calls>>
    /\ UNCHANGED <<req, outer>>

\* lines 293-389: resolve the invocation and create the process; a source that
\* cannot be resolved or a Popen that raises ends the call with None
g_spawn(t) ==
    /\ pc[t] = "g_spawn"
    /\ \/ /\ nextHandle <= MaxCalls
          /\ launch_plan(frame[t].stream_config) # "none"
          /\ pstate' = [pstate EXCEPT ![nextHandle] = "running"]
          /\ hkey' = [hkey EXCEPT ![nextHandle] = frame[t].key]
          /\ hcfg' = [hcfg EXCEPT ![nextHandle] = frame[t].stream_config]
          /\ nextHandle' = nextHandle + 1
          /\ frame' = [frame EXCEPT ![t].process = nextHandle,
                                     ![t].attempts = @ + 1]
          /\ pc' = [pc EXCEPT ![t] = "g_store"]
          /\ quiet' = quiet
       \/ /\ frame[t].attempts < 2
          /\ frame' = [frame EXCEPT ![t].process = NoHandle, ![t].result = NoHandle,
                                     ![t].attempts = @ + 1]
          /\ pc' = [pc EXCEPT ![t] = pc_after_failed_start]
          /\ quiet' = FALSE
          /\ UNCHANGED <<nextHandle, pstate, hkey, hcfg>>
    /\ UNCHANGED <<shared, termCount, killCount, stoppedDone, calls>>
    /\ UNCHANGED <<req, outer>>

\* lines 391-400: start the stderr thread, then proc_data['process'] = process;
\* lines 405-407: a thread that cannot be started ends the call with None
g_store(t) ==
    /\ pc[t] = "g_store"
    /\ LET e == frame[t].procData
           h == frame[t].process IN
        \/ /\ entProc' = [entProc EXCEPT ![e] = h]
           /\ frame' = [frame EXCEPT ![t].result = h]
           /\ pc' = [pc EXCEPT ![t] = "g_exit"]
           /\ quiet' = quiet
        \/ /\ entProc' = slot_after_failed_start(entProc, e, h)
           /\ frame' = [frame EXCEPT ![t].result = NoHandle]
           /\ pc' = [pc EXCEPT ![t] = pc_after_failed_start]
           /\ quiet' = FALSE
    /\ UNCHANGED <<RUNNING_PROCESSES, regOrder, nextEntry, lockOwner, procs,
                   stoppedDone, calls>>
    /\ UNCHANGED <<req, outer>>

\* leaving the with block and returning frame[t].result to the caller
g_exit(t) ==
    /\ pc[t] = "g_exit"
    /\ lockOwner' = release(lockOwner, frame[t].lockRef)
    /\ pc' = [pc EXCEPT ![t] = "idle"]
    /\ frame' = [frame EXCEPT ![t] = EmptyFrame]
    /\ req' = returned_to(req, t, frame[t].result)
    /\ UNCHANGED <<RUNNING_PROCESSES, regOrder, nextEntry, entProc, procs, hist, calls,
                   outer>>

\* ---------------------------------------------------- stop_stream_process
\* variant of dict_pop that reads the entry and leaves it in the dictionary
dict_get(R, k) == R

\* RUNNING_PROCESSES.pop(key)
dict_pop(R, k) == [R EXCEPT ![k] = NoEntry]

\* variant of should_terminate without the poll() test
should_terminate_any(h) == h # NoHandle

\* `if process and process.poll() is None:` guards terminate / wait / kill
should_terminate(h) == is_running(h)

\* Popen.send_signal: the signal is delivered only to a process that has not exited
signalled(ps, h, to) == IF poll_is_None(h) THEN [ps EXCEPT ![h] = to] ELSE ps

Bump(f, h) == [f EXCEPT ![h] = IF @ < 2 THEN @ + 1 ELSE @]

\* lines 413-416: snapshot the matching keys of the dictionary
matching_keys(sid, pv) == SeqFilter(regOrder, sid, pv)

\* a direct call of stop_stream_process(stream_id, process_variant)
stop_stream_process(t, sid, pv) ==
    /\ pc[t] = "idle"
    /\ calls < MaxCalls
    /\ calls' = calls + 1
    /\ frame' = [frame EXCEPT ![t] = [EmptyFrame EXCEPT !.op = "stop",
                                         !.keys = matching_keys(sid, pv)]]
    /\ pc' = [pc EXCEPT ![t] = "s_loop"]
    /\ quiet' = FALSE
    /\ UNCHANGED <<shared, procs, stoppedDone, req, outer>>

\* lines 418-419: next key of the snapshot, evaluate RUNNING_PROCESSES[key]['lock'];
\* an exhausted snapshot ends the call
s_loop(t) ==
    /\ pc[t] = "s_loop"
    /\ IF frame[t].idx > Len(frame[t].keys)
       THEN /\ stoppedDone' = stoppedDone \cup frame[t].popped
            /\ IF frame[t].caller = "cleanup"
               THEN /\ pc' = [pc EXCEPT ![t] = "c_loop"]
                    /\ frame' = [frame EXCEPT ![t].popped = {}, ![t].keys = <<>>,
                                              ![t].idx = 1]
                    /\ req' = req
               ELSE /\ pc' = [pc EXCEPT ![t] = "idle"]
                    /\ frame' = [frame EXCEPT ![t] = EmptyFrame]
                    /\ req' = returned_to(req, t, NoHandle)
       ELSE LET k == frame[t].keys[frame[t].idx] IN
            /\ stoppedDone' = stoppedDone
            /\ req' = req
            /\ IF key_present(k)
               THEN /\ frame' = [frame EXCEPT ![t].key = k,
                                              ![t].lockRef = RUNNING_PROCESSES[k]]
                    /\ pc' = [pc EXCEPT ![t] = "s_acquire"]
               ELSE /\ frame' = [frame EXCEPT ![t].key = k]
                    /\ pc' = [pc EXCEPT ![t] = "raised"]
    /\ UNCHANGED <<shared, procs, quiet, calls, outer>>

\* line 419: `with lock:`
s_acquire(t) ==
    /\ pc[t] = "s_acquire"
    /\ lockOwner[frame[t].lockRef] = NoThread
    /\ lockOwner' = [lockOwner EXCEPT ![frame[t].lockRef] = t]
    /\ pc' = [pc EXCEPT ![t] = "s_pop"]
    /\ UNCHANGED <<RUNNING_PROCESSES, regOrder, nextEntry, entProc, procs, frame,
                   hist, calls>>
    /\ UNCHANGED <<req, outer>>

\* line 420: proc_data = RUNNING_PROCESSES.pop(key) (KeyError leaves the with block)
s_pop(t) ==
    /\ pc[t] = "s_pop"
    /\ LET k == frame[t].key IN
        IF key_present(k)
        THEN /\ RUNNING_PROCESSES' = dict_pop(RUNNING_PROCESSES, k)
             /\ regOrder' = IF dict_pop(RUNNING_PROCESSES, k)[k] = NoEntry
                             THEN SeqRemove(regOrder, k) ELSE regOrder
             /\ frame' = [frame EXCEPT ![t].procData = RUNNING_PROCESSES[k]]
             /\ pc' = [pc EXCEPT ![t] = "s_poll"]
             /\ lockOwner' = lockOwner
        ELSE /\ UNCHANGED <<RUNNING_PROCESSES, regOrder>>
             /\ frame' = [frame EXCEPT ![t].lockRef = NoEntry]
             /\ pc' = [pc EXCEPT ![t] = "raised"]
             /\ lockOwner' = release(lockOwner, frame[t].lockRef)
    /\ UNCHANGED <<nextEntry, entProc, procs, hist, calls>>
    /\ UNCHANGED <<req, outer>>

\* lines 421-422: process = proc_data.get('process'); is it still running?
s_poll(t) ==
    /\ pc[t] = "s_poll"
    /\ LET h == entProc[frame[t].procData] IN
        /\ frame' = [frame EXCEPT ![t].process = h,
                                  ![t].popped = IF h = NoHandle THEN @ ELSE @ \cup {h}]
        /\ pc' = [pc EXCEPT ![t] = IF should_terminate(h) THEN "s_term" ELSE "s_release"]
    /\ UNCHANGED <<shared, procs, hist, calls>>
    /\ UNCHANGED <<req, outer>>

\* line 429: process.terminate()
s_term(t) ==
    /\ pc[t] = "s_term"
    /\ termCount' = Bump(termCount, frame[t].process)
    /\ pstate' = signalled(pstate, frame[t].process, "termed")
    /\ pc' = [pc EXCEPT ![t] = "s_wait"]
    /\ UNCHANGED <<shared, nextHandle, hkey, hcfg, killCount, frame, hist, calls>>
    /\ UNCHANGED <<req, outer>>

\* lines 430-432: process.wait(timeout=5) returns once the process has exited,
\* or raises TimeoutExpired while it has not
s_wait(t) ==
    /\ pc[t] = "s_wait"
    /\ pc' = [pc EXCEPT ![t] = IF poll_is_None(frame[t].process)
                                THEN "s_kill" ELSE "s_release"]
    /\ UNCHANGED <<shared, procs, frame, hist, calls>>
    /\ UNCHANGED <<req, outer>>

\* line 434: process.kill()
s_kill(t) ==
    /\ pc[t] = "s_kill"
    /\ killCount' = Bump(killCount, frame[t].process)
    /\ pstate' = signalled(pstate, frame[t].process, "killed")
    /\ pc' = [pc EXCEPT ![t] = "s_release"]
    /\ UNCHANGED <<shared, nextHandle, hkey, hcfg, termCount, frame, hist, calls>>
    /\ UNCHANGED <<req, outer>>

\* leaving the with block; next key of the snapshot
s_release(t) ==
    /\ pc[t] = "s_release"
    /\ lockOwner' = release(lockOwner, frame[t].lockRef)
    /\ frame' = [frame EXCEPT ![t].idx = @ + 1, ![t].lockRef = NoEntry,
                              ![t].procData = NoEntry, ![t].process = NoHandle,
                              ![t].key = NoKey]
    /\ pc' = [pc EXCEPT ![t] = "s_loop"]
    /\ UNCHANGED <<RUNNING_PROCESSES, regOrder, nextEntry, entProc, procs, hist, calls>>
    /\ UNCHANGED <<req, outer>>

\* -------------------------------------------------- cleanup_all_processes
\* variant of cleanup_variant that stops the default variant only
cleanup_variant_default == DEFAULT_VARIANT_KEY

\* line 448: stop_stream_process(stream_id) leaves process_variant at None
cleanup_variant == NoVariant

\* line 446: stream_ids = {key[0] for key in RUNNING_PROCESSES.keys()}
cleanup_all_processes(t) ==
    /\ pc[t] = "idle"
    /\ calls < MaxCalls
    /\ calls' = calls + 1
    /\ frame' = [frame EXCEPT ![t] = [EmptyFrame EXCEPT !.op = "cleanup",
             !.caller = "cleanup",
             !.ids = SortedIds({regOrder[i][1] : i \in 1..Len(regOrder)}),
             !.registeredAtStart = RegisteredHandles]]
    /\ pc' = [pc EXCEPT ![t] = "c_loop"]
    /\ quiet' = FALSE
    /\ req' = [req EXCEPT ![t].noG = \A u \in Threads : frame[u].op # "get_or_start"]
    /\ UNCHANGED <<shared, procs, stoppedDone, outer>>

\* lines 447-448: for stream_id in list(stream_ids): stop_stream_process(stream_id)
c_loop(t) ==
    /\ pc[t] = "c_loop"
    /\ IF frame[t].ids = <<>>
       THEN /\ pc' = [pc EXCEPT ![t] = "idle"]
            /\ frame' = [frame EXCEPT ![t] = EmptyFrame]
            /\ req' = [req EXCEPT ![t] = EmptyReq]
       ELSE /\ pc' = [pc EXCEPT ![t] = "s_loop"]
            /\ frame' = [frame EXCEPT ![t].ids = Tail(frame[t].ids),
                                      ![t].keys = matching_keys(Head(frame[t].ids),
                                                                cleanup_variant)]
            /\ req' = req
    /\ UNCHANGED <<shared, procs, hist, calls, outer>>

\* ------------------------------------------------------------ environment
\* the KeyError propagates to the caller of the supervisor
exception_propagates(t) ==
    /\ pc[t] = "raised"
    /\ pc' = [pc EXCEPT ![t] = "idle"]
    /\ frame' = [frame EXCEPT ![t] = EmptyFrame]
    /\ req' = raised_to(req, t)
    /\ UNCHANGED <<shared, procs, hist, calls, outer>>

\* a transcoder process ends: on its own, after SIGTERM, or after SIGKILL
process_exits(h) ==
    /\ poll_is_None(h)
    /\ pstate' = [pstate EXCEPT ![h] = "exited"]
    /\ quiet' = FALSE
    /\ UNCHANGED <<shared, nextHandle, hkey, hcfg, termCount, killCount, pc, frame,
                   stoppedDone, calls>>
    /\ UNCHANGED <<req, outer>>

Next ==
    \/ \E t \in Threads, sid \in StreamIds, pv \in Variants \cup {NoVariant} :
          get_or_start_stream_process(t, sid, pv)
    \/ \E t \in Threads : g_insert(t)
    \/ \E t \in Threads : g_lockref(t)
    \/ \E t \in Threads : g_acquire(t)
    \/ \E t \in Threads : g_lookup(t)
    \/ \E t \in Threads : g_poll(t)
    \/ \E t \in Threads : g_spawn(t)
    \/ \E t \in Threads : g_store(t)
    \/ \E t \in Threads : g_exit(t)
    \/ \E t \in Threads, sid \in StreamIds, pv \in Variants \cup {NoVariant} :
          stop_stream_process(t, sid, pv)
    \/ \E t \in Threads : s_loop(t)
    \/ \E t \in Threads : s_acquire(t)
    \/ \E t \in Threads : s_pop(t)
    \/ \E t \in Threads : s_poll(t)
    \/ \E t \in Threads : s_term(t)
    \/ \E t \in Threads : s_wait(t)
    \/ \E t \in Threads : s_kill(t)
    \/ \E t \in Threads : s_release(t)
    \/ \E t \in Threads : cleanup_all_processes(t)
    \/ \E t \in Threads : c_loop(t)
    \/ \E t \in Threads : exception_propagates(t)
    \/ \E h \in Handles : process_exits(h)

Spec == Init /\ [][Next]_vars

TypeOK ==
    /\ RUNNING_PROCESSES \in [Keys -> Entries \cup {NoEntry}]
    /\ entProc \in [Entries -> Handles \cup {NoHandle}]
    /\ lockOwner \in [Entries -> Threads \cup {NoThread}]
    /\ nextEntry \in 1..(MaxCalls + 1)
    /\ nextHandle \in 1..(MaxCalls + 1)
    /\ calls \in 0..MaxCalls

\* ======================================================== request handlers
MaxChunks == 1       \* chunks a process can write before its stdout pipe is full
MaxViewers == 2      \* viewer requests made where only viewers are considered

Viewers == {"stream_media", "audio_only"}
Regions == {"none", "xx"}        \* region of the request: none given, or "xx"
RequestVariants == {NoVariant, "hd", "zz"}   \* ?variant= of the request

\* a schedule timestamp of the configuration: absent, a datetime or an ISO-8601
\* string with wall-clock reading `wall` and UTC offset `off`, or a value
\* that cannot be read as a datetime
NaiveOffset == 99
RawNone == [kind |-> "None", wall |-> 0, off |-> 0]
RawInvalid == [kind |-> "invalid", wall |-> 0, off |-> 0]
RawTime(w, o) == [kind |-> "iso", wall |-> w, off |-> o]

\* names of the adaptive_bitrates of a definition
adaptive_bitrates(d) ==
    IF d = NoDef THEN {}
    ELSE {definition(d).adaptive_bitrates[i].name :
             i \in DOMAIN definition(d).adaptive_bitrates}

\* regions_allowed / regions_blocked of a definition
regions_allowed(d) == IF d = NoDef THEN {} ELSE definition(d).regions_allowed
regions_blocked(d) == IF d = NoDef THEN {} ELSE definition(d).regions_blocked

\* stream_utils.is_stream_allowed_for_region
is_stream_allowed_for_region(d, region) ==
    IF regions_allowed(d) # {} /\ (region = "none" \/ region \notin regions_allowed(d))
    THEN FALSE
    ELSE IF regions_blocked(d) # {} /\ region # "none" /\ region \in regions_blocked(d)
    THEN FALSE
    ELSE TRUE

\* lines 355-359: the first entry of adaptive_bitrates with the name asked for,
\* None (NoConfig) when there is none
select_variant(stream_config, variant_name) ==
    LET found == {i \in DOMAIN stream_config.adaptive_bitrates :
                     stream_config.adaptive_bitrates[i].name = variant_name}
    IN IF found = {} THEN NoConfig
       ELSE stream_config.adaptive_bitrates[CHOOSE i \in found : \A j \in found : i <= j]

\* variant of variant_missing that goes on with the stream itself
variant_missing_ignored(variant_name, variant_config) == FALSE

\* lines 361-362: `if not variant_config: abort(404)` under `if variant_name:`
variant_missing(variant_name, variant_config) ==
    variant_name # NoVariant /\ variant_config = NoConfig

\* line 365: the fields a variant can replace
OverridableFields ==
    {"ffmpeg_profile", "custom_ffmpeg", "source", "input_options", "input_args",
     "source_handler", "use_yt_dlp", "yt_dlp_format"}

\* variant of apply_variant that adds the variant's input options to the parent's
apply_variant_merging(stream_config, variant_config) ==
    [f \in DOMAIN stream_config |->
        IF f \in OverridableFields \cap DOMAIN variant_config
        THEN (IF f = "input_options" THEN stream_config[f] \cup variant_config[f]
              ELSE variant_config[f])
        ELSE stream_config[f]]

\* lines 364-367: selected_stream_config = copy.deepcopy(stream_config), then
\* `if field in variant_config: selected_stream_config[field] = variant_config[field]`
apply_variant(stream_config, variant_config) ==
    [f \in DOMAIN stream_config |->
        IF f \in OverridableFields \cap DOMAIN variant_config
        THEN variant_config[f]
        ELSE stream_config[f]]

\* line 364: the assignments go to the deep copy, the definition of stream_map
\* keeps its fields
stored_after_request(stream_config, selected_stream_config) == stream_config

\* lines 369-379: a definition without custom_ffmpeg needs an ffmpeg_profile
\* that app.config['ffmpeg_profiles'] has
profile_known(selected_stream_config) ==
    \/ selected_stream_config.custom_ffmpeg.kind # "absent"
    \/ selected_stream_config.ffmpeg_profile \in ffmpeg_profiles

\* lines 433-435: the copy of the definition the audio route hands over
audio_config(stream_config) ==
    [f \in DOMAIN stream_config \cup {"output_format"} |->
        IF f = "output_format" THEN "audio" ELSE stream_config[f]]

\* iter(value) for the value get_or_start_stream_process returns: neither None
\* nor a Popen object is iterable, so `process, actual_variant = value` raises
iterable(v) == FALSE

\* GET /stream/<id>: lines 341-386, up to the call of the supervisor
stream_media(t, sid, vn, ov, region) ==
    /\ pc[t] = "idle" /\ req[t].op = "none"
    /\ calls < MaxCalls
    /\ calls' = calls + 1
    /\ LET d == stream_map[sid]
           stream_config == definition(d)
           allowed == is_stream_allowed_for_region(d, region)
           variant_config == IF vn # NoVariant THEN select_variant(stream_config, vn)
                             ELSE NoConfig
           selected_stream_config ==
               IF variant_config # NoConfig THEN apply_variant(stream_config, variant_config)
               ELSE stream_config
           base_variant == IF variant_config # NoConfig THEN vn ELSE DEFAULT_VARIANT_KEY
           process_variant == IF ov THEN overlap_variant(base_variant, clock)
                              ELSE base_variant
           status == IF d = NoDef THEN 404
                     ELSE IF ~ allowed THEN 403
                     ELSE IF variant_missing(vn, variant_config) THEN 404
                     ELSE IF ~ profile_known(selected_stream_config) THEN 500
                     ELSE 0
           r == get_or_start_begins(req)
       IN /\ req' = [r EXCEPT ![t] =
                       IF status = 0
                       THEN [EmptyReq EXCEPT !.op = "stream_media", !.at = "call",
                                             !.sid = sid, !.variant = process_variant,
                                             !.overlap = ov, !.def = d,
                                             !.region = region, !.asked = vn,
                                             !.cfg = selected_stream_config]
                       ELSE [EmptyReq EXCEPT !.op = "stream_media", !.at = "done",
                                             !.sid = sid, !.status = status, !.def = d,
                                             !.region = IF d = NoDef THEN "none" ELSE region,
                                             !.asked = IF d = NoDef \/ ~ allowed
                                                       THEN NoVariant ELSE vn]]
          /\ static_stream' =
                IF d = StaticDef /\ variant_config # NoConfig
                THEN stored_after_request(stream_config, selected_stream_config)
                ELSE static_stream
    /\ UNCHANGED <<shared, procs, pc, frame, hist, web, scheduled_streams, planning,
                   loader, jobs>>

\* GET /audio/<id>: lines 428-443, up to the call of the supervisor; the region
\* of the request is not looked at
audio_only(t, sid, region) ==
    /\ pc[t] = "idle" /\ req[t].op = "none"
    /\ calls < MaxCalls
    /\ calls' = calls + 1
    /\ LET d == stream_map[sid]
           r == get_or_start_begins(req)
       IN req' = [r EXCEPT ![t] =
                    IF d # NoDef
                    THEN [EmptyReq EXCEPT !.op = "audio_only", !.at = "call",
                                          !.sid = sid, !.variant = AUDIO_VARIANT,
                                          !.def = d, !.region = region,
                                          !.cfg = audio_config(definition(d))]
                    ELSE [EmptyReq EXCEPT !.op = "audio_only", !.at = "done",
                                          !.sid = sid, !.status = 404]]
    /\ UNCHANGED <<shared, procs, pc, frame, hist, outer>>

\* lines 388-392 / 443: the handler calls get_or_start_stream_process
call_get_or_start(t) ==
    /\ pc[t] = "idle" /\ req[t].at = "call" /\ req[t].op \in Viewers
    /\ LET k == process_key(req[t].sid, req[t].variant) IN
        /\ frame' = [frame EXCEPT ![t] = get_or_start_frame(k, req[t].cfg)]
        /\ pc' = [pc EXCEPT ![t] = get_or_start_pc(k)]
    /\ req' = [get_or_start_begins(req) EXCEPT ![t].at = "wait"]
    /\ UNCHANGED <<shared, procs, hist, calls, outer>>

\* line 388 / 443: `process, actual_variant = ...` unpacks the value returned;
\* lines 394-416 follow only when the unpacking succeeds
unpack_result(t) ==
    /\ pc[t] = "idle" /\ req[t].at = "back" /\ req[t].op \in Viewers
    /\ req' = [req EXCEPT
                 ![t].at = IF iterable(req[t].ret) /\ req[t].ret # NoHandle
                           THEN "relay" ELSE "done",
                 ![t].status = IF iterable(req[t].ret) /\ req[t].ret # NoHandle
                               THEN 200 ELSE 500]
    /\ UNCHANGED <<shared, procs, pc, frame, hist, calls, outer>>

\* the response has been sent and the connection of the request is closed;
\* a job that has run is done
respond(t) ==
    /\ pc[t] = "idle" /\ req[t].at = "done"
    /\ req' = [req EXCEPT ![t] = EmptyReq]
    /\ UNCHANGED <<shared, procs, pc, frame, hist, calls, outer>>

\* the transcoder writes a chunk to its stdout pipe
process_writes(h) ==
    /\ pstate[h] = "running"
    /\ written[h] < MaxChunks
    /\ written' = [written EXCEPT ![h] = @ + 1]
    /\ UNCHANGED <<shared, procs, pc, frame, hist, calls, req, stream_map, clock, sch>>

\* a millisecond passes
tick ==
    /\ clock < MaxClock
    /\ clock' = clock + 1
    /\ UNCHANGED <<shared, procs, pc, frame, hist, calls, req, stream_map, written, sch>>

\* ------------------------------------------------ scheduler jobs, the API
\* the scheduler runs a date job that is due on one of its threads and drops it
run_job(t, j) ==
    /\ pc[t] = "idle" /\ req[t].op = "none"
    /\ calls < MaxCalls
    /\ jobs[j] # NoJob /\ jobs[j].run <= clock
    /\ calls' = calls + 1
    /\ jobs' = [jobs EXCEPT ![j] = NoJob]
    /\ req' = [req EXCEPT ![t] = [EmptyReq EXCEPT !.op = j[2], !.at = "start",
                                                  !.sid = j[1], !.def = jobs[j].def]]
    /\ UNCHANGED <<shared, procs, pc, frame, hist, web, conf, loader>>

\* variant of activation_step that stores the definition over the one present
activation_overwrites(present) == "insert"

\* line 96: `if stream_id in stream_map: return`, else go on to line 104
activation_step(present) == IF present THEN "done" ELSE "insert"

\* server.py lines 94-109: the check of line 96
activate_scheduled_stream(t) ==
    /\ pc[t] = "idle" /\ req[t].op = "activate" /\ req[t].at = "start"
    /\ req' = [req EXCEPT ![t].at = activation_step(stream_map[req[t].sid] # NoDef)]
    /\ UNCHANGED <<shared, procs, pc, frame, hist, calls, outer>>

\* line 104: stream_map[stream_id] = copy.deepcopy(stream_definition)
insert_stream(t) ==
    /\ pc[t] = "idle" /\ req[t].op = "activate" /\ req[t].at = "insert"
    /\ stream_map' = [stream_map EXCEPT ![req[t].sid] = req[t].def]
    /\ req' = [req EXCEPT ![t].at = "done"]
    /\ UNCHANGED <<shared, procs, pc, frame, hist, calls, clock, written, sch>>

\* server.py lines 111-115: stream_definition = stream_map.get(stream_id);
\* `if not stream_definition: return`
deactivate_scheduled_stream(t) ==
    /\ pc[t] = "idle" /\ req[t].op = "deactivate" /\ req[t].at = "start"
    /\ req' = [req EXCEPT
                 ![t].at = IF stream_map[req[t].sid] = NoDef THEN "done" ELSE "call",
                 ![t].def = stream_map[req[t].sid],
                 ![t].noG = \A u \in Threads :
                               req[u].op \notin Viewers /\ frame[u].op # "get_or_start"]
    /\ UNCHANGED <<shared, procs, pc, frame, hist, calls, outer>>

\* api.py lines 358-362: DELETE /api/streams/<id>, `if stream_id in stream_map`
delete_stream(t, sid) ==
    /\ pc[t] = "idle" /\ req[t].op = "none"
    /\ calls < MaxCalls
    /\ calls' = calls + 1
    /\ req' = [req EXCEPT ![t] =
                 IF stream_map[sid] # NoDef
                 THEN [EmptyReq EXCEPT !.op = "delete", !.at = "call", !.sid = sid,
                                       !.def = stream_map[sid]]
                 ELSE [EmptyReq EXCEPT !.op = "delete", !.at = "done", !.sid = sid,
                                       !.status = 404]]
    /\ UNCHANGED <<shared, procs, pc, frame, hist, outer>>

\* api.py lines 274-339: PUT /api/streams/<id> with a new source, up to the
\* call of the supervisor; `if stream_id not in stream_map` answers 404
update_stream(t, sid) ==
    /\ pc[t] = "idle" /\ req[t].op = "none"
    /\ calls < MaxCalls
    /\ calls' = calls + 1
    /\ req' = [req EXCEPT ![t] =
                 IF stream_map[sid] # NoDef
                 THEN [EmptyReq EXCEPT !.op = "update", !.at = "call", !.sid = sid,
                                       !.def = stream_map[sid]]
                 ELSE [EmptyReq EXCEPT !.op = "update", !.at = "done", !.sid = sid,
                                       !.status = 404]]
    /\ UNCHANGED <<shared, procs, pc, frame, hist, outer>>

\* api.py lines 341-356: stream_entry = stream_map[stream_id] (a KeyError when
\* the id is gone), then the fields of the entry are replaced
update_entry(t) ==
    /\ pc[t] = "idle" /\ req[t].at = "back" /\ req[t].op = "update"
    /\ stream_map' = IF stream_map[req[t].sid] = NoDef THEN stream_map
                     ELSE [stream_map EXCEPT ![req[t].sid] = UpdatedDef]
    /\ req' = [req EXCEPT ![t].at = "done",
                          ![t].status = IF stream_map[req[t].sid] = NoDef
                                        THEN 500 ELSE 200]
    /\ UNCHANGED <<shared, procs, pc, frame, hist, calls, clock, written, sch>>

\* server.py line 117 / api.py lines 339, 363: ffmpeg_utils.stop_stream_process(stream_id)
call_stop(t) ==
    /\ pc[t] = "idle" /\ req[t].at = "call"
    /\ req[t].op \in {"deactivate", "delete", "update"}
    /\ frame' = [frame EXCEPT ![t] = [EmptyFrame EXCEPT !.op = "stop",
                                         !.keys = matching_keys(req[t].sid, NoVariant)]]
    /\ pc' = [pc EXCEPT ![t] = "s_loop"]
    /\ quiet' = FALSE
    /\ req' = [req EXCEPT ![t].at = "wait"]
    /\ UNCHANGED <<shared, procs, stoppedDone, calls, outer>>

\* server.py line 118: stream_map.pop(stream_id, None);
\* api.py line 364: stream_map.pop(stream_id), a KeyError when the id is gone
pop_stream(t) ==
    /\ pc[t] = "idle" /\ req[t].at = "back" /\ req[t].op \in {"deactivate", "delete"}
    /\ stream_map' = [stream_map EXCEPT ![req[t].sid] = NoDef]
    /\ req' = [req EXCEPT ![t].at = "done",
                          ![t].status = IF req[t].op = "delete"
                                        THEN (IF stream_map[req[t].sid] = NoDef
                                              THEN 500 ELSE 200)
                                        ELSE 0]
    /\ UNCHANGED <<shared, procs, pc, frame, hist, calls, clock, written, sch>>

\* ------------------------------------------------- viewers of stream 1
\* the request threads of an application that serves the static stream 1
NextRelay ==
    \/ \E t \in Threads, sid \in MapIds, vn \in RequestVariants, ov \in BOOLEAN,
          region \in Regions : calls < MaxViewers /\ stream_media(t, sid, vn, ov, region)
    \/ \E t \in Threads, sid \in MapIds : calls < MaxViewers /\ audio_only(t, sid, "none")
    \/ \E t \in Threads : call_get_or_start(t)
    \/ \E t \in Threads : g_insert(t)
    \/ \E t \in Threads : g_lockref(t)
    \/ \E t \in Threads : g_acquire(t)
    \/ \E t \in Threads : g_lookup(t)
    \/ \E t \in Threads : g_poll(t)
    \/ \E t \in Threads : g_spawn(t)
    \/ \E t \in Threads : g_store(t)
    \/ \E t \in Threads : g_exit(t)
    \/ \E t \in Threads : unpack_result(t)
    \/ \E t \in Threads : respond(t)
    \/ \E h \in Handles : process_exits(h)
    \/ \E h \in Handles : process_writes(h)
    \/ tick

SpecRelay == Init /\ [][NextRelay]_vars

\* ------------------------------ removal of a stream that has viewers
\* scheduled_streams holds stream 2 with no start and an end at instant 1; the
\* loader has activated it and has set its end timer, which is now due
InitServer ==
    /\ InitSupervisor
    /\ stream_map = [i \in MapIds |-> IF i = 1 THEN StaticDef ELSE 1]
    /\ clock = 1
    /\ scheduled_streams =
          <<[kind |-> "dict", id |-> 2, schedule |-> "dict", start |-> RawNone,
             end |-> RawTime(1, 0)]>>
    /\ static_stream = DefaultStream
    /\ loader = [pos |-> 2, now |-> 0, at |-> "entry"]
    /\ jobs = [j \in JobIds |-> IF j = <<2, "deactivate">>
                                THEN [run |-> 1, def |-> NoDef, src |-> 1] ELSE NoJob]
    /\ plan = NoPlan /\ disk = NoDisk

\* viewers of the shared instances of the scheduled stream 2, the end timer of
\* the stream, and the API deleting the stream or changing its source
NextServer ==
    \/ \E t \in Threads, vn \in {NoVariant, "hd"} : stream_media(t, 2, vn, FALSE, "none")
    \/ \E t \in Threads : call_get_or_start(t)
    \/ \E t \in Threads : g_insert(t)
    \/ \E t \in Threads : g_lockref(t)
    \/ \E t \in Threads : g_acquire(t)
    \/ \E t \in Threads : g_lookup(t)
    \/ \E t \in Threads : g_poll(t)
    \/ \E t \in Threads : g_spawn(t)
    \/ \E t \in Threads : g_store(t)
    \/ \E t \in Threads : g_exit(t)
    \/ \E t \in Threads : unpack_result(t)
    \/ \E t \in Threads : respond(t)
    \/ \E t \in Threads, j \in JobIds : run_job(t, j)
    \/ \E t \in Threads : deactivate_scheduled_stream(t)
    \/ \E t \in Threads : delete_stream(t, 2)
    \/ \E t \in Threads : update_stream(t, 2)
    \/ \E t \in Threads : update_entry(t)
    \/ \E t \in Threads : call_stop(t)
    \/ \E t \in Threads : s_loop(t)
    \/ \E t \in Threads : s_acquire(t)
    \/ \E t \in Threads : s_pop(t)
    \/ \E t \in Threads : s_poll(t)
    \/ \E t \in Threads : s_term(t)
    \/ \E t \in Threads : s_wait(t)
    \/ \E t \in Threads : s_kill(t)
    \/ \E t \in Threads : s_release(t)
    \/ \E t \in Threads : pop_stream(t)
    \/ \E t \in Threads : exception_propagates(t)
    \/ \E h \in Handles : process_exits(h)

SpecServer == InitServer /\ [][NextServer]_vars

\* ======================================================== schedule loader
MaxTime == 3         \* instants of the scheduler's clock: 0..MaxTime

LoaderThread == "t1"     \* create_app runs setup_scheduled_streams on the main thread
JobThread == "t2"        \* the scheduler runs its jobs on a thread of its own
NoId == 0                \* entry.get('id') is None

\* ids of config['streams'] (lines 131-135)
base_stream_ids == {i \in MapIds : i = 1}

\* _parse_schedule_datetime: None for None, for a string that is not ISO-8601
\* and for a value of another type; a naive reading is taken as UTC; the result
\* is the instant in UTC
parse_schedule_datetime(value) ==
    IF value.kind = "None" THEN NoTime
    ELSE IF value.kind = "iso"
         THEN (IF value.off = NaiveOffset THEN value.wall ELSE value.wall - value.off)
         ELSE NoTime

\* variant of end_not_after_start that rejects only an end before the start
end_before_start(start_dt, end_dt) ==
    start_dt # NoTime /\ end_dt # NoTime /\ end_dt < start_dt

\* line 160: `if start_dt and end_dt and end_dt <= start_dt`
end_not_after_start(start_dt, end_dt) ==
    start_dt # NoTime /\ end_dt # NoTime /\ end_dt <= start_dt

\* variant of end_is_past that takes an end at the instant of loading as still to come
end_is_before_now(end_dt, now) == end_dt # NoTime /\ end_dt < now

\* line 170: `if end_dt and end_dt <= now`
end_is_past(end_dt, now) == end_dt # NoTime /\ end_dt <= now

\* variant of start_is_due that sets a timer for every start that is given
start_is_absent(start_dt, now) == start_dt = NoTime

\* line 174: `if not start_dt or start_dt <= now`
start_is_due(start_dt, now) == start_dt = NoTime \/ start_dt <= now

\* variant of has_static_id that never finds a static stream
has_no_static_id(stream_id) == FALSE

\* line 147: `if stream_id in base_stream_ids`
has_static_id(stream_id) == stream_id \in base_stream_ids

\* scheduler.add_job(..., id=..., replace_existing=True)
add_job(J, j, run_date, d, i) == [J EXCEPT ![j] = [run |-> run_date, def |-> d, src |-> i]]

\* lines 126-130: nothing to do for an empty list; now = datetime.now(timezone.utc)
setup_scheduled_streams ==
    /\ loader.pos = 0
    /\ loader' = [pos |-> 1, now |-> clock, at |-> "entry"]
    /\ UNCHANGED <<shared, procs, pc, frame, hist, calls, req, web, conf, jobs>>

\* lines 137-186: one entry of the list, up to its activation or its start
\* timer; line 155, `entry.get('schedule', {}) or {}`, yields the schedule block
\* as it is, and line 157 calls .get on it: an AttributeError for a block that
\* is no mapping, which leaves setup_scheduled_streams and create_app
load_entry ==
    /\ loader.pos >= 1 /\ loader.pos <= Len(scheduled_streams) /\ loader.at = "entry"
    /\ req[LoaderThread].op = "none"
    /\ LET i == loader.pos
           entry == scheduled_streams[i]
           start_dt == parse_schedule_datetime(entry.start)
           end_dt == parse_schedule_datetime(entry.end)
           next_entry == [loader EXCEPT !.pos = i + 1]
       IN IF entry.kind # "dict" \/ entry.id = NoId \/ has_static_id(entry.id)
          THEN /\ loader' = next_entry
               /\ UNCHANGED <<req, jobs>>
          ELSE IF entry.schedule # "dict"
          THEN /\ loader' = [loader EXCEPT !.at = "raised"]
               /\ UNCHANGED <<req, jobs>>
          ELSE IF end_not_after_start(start_dt, end_dt)
          THEN /\ loader' = next_entry
               /\ UNCHANGED <<req, jobs>>
          ELSE IF end_is_past(end_dt, loader.now)
          THEN /\ loader' = next_entry
               /\ req' = [req EXCEPT ![LoaderThread] =
                            [EmptyReq EXCEPT !.op = "deactivate", !.at = "start",
                                             !.sid = entry.id]]
               /\ jobs' = jobs
          ELSE IF start_is_due(start_dt, loader.now)
          THEN /\ loader' = [loader EXCEPT !.at = "end_job"]
               /\ req' = [req EXCEPT ![LoaderThread] =
                            [EmptyReq EXCEPT !.op = "activate", !.at = "start",
                                             !.sid = entry.id, !.def = i]]
               /\ jobs' = jobs
          ELSE /\ loader' = [loader EXCEPT !.at = "end_job"]
               /\ jobs' = add_job(jobs, <<entry.id, "activate">>, start_dt, i, i)
               /\ req' = req
    /\ UNCHANGED <<shared, procs, pc, frame, hist, calls, web, conf>>

\* lines 188-204: `if end_dt:` set the end timer of the entry
add_end_job ==
    /\ loader.pos >= 1 /\ loader.pos <= Len(scheduled_streams) /\ loader.at = "end_job"
    /\ req[LoaderThread].op = "none"
    /\ LET i == loader.pos
           entry == scheduled_streams[i]
           end_dt == parse_schedule_datetime(entry.end)
       IN jobs' = IF end_dt # NoTime
                  THEN add_job(jobs, <<entry.id, "deactivate">>, end_dt, NoDef, i)
                  ELSE jobs
    /\ loader' = [loader EXCEPT !.pos = @ + 1, !.at = "entry"]
    /\ UNCHANGED <<shared, procs, pc, frame, hist, calls, req, web, conf>>

\* an instant of the scheduler's clock passes
time_passes ==
    /\ clock < MaxTime
    /\ clock' = clock + 1
    /\ UNCHANGED <<shared, procs, pc, frame, hist, calls, req, stream_map, written, sch>>

\* schedule timestamps of the configuration: none, an instant in the past, and
\* instant 2 written in UTC, as a naive reading and with a +1 offset, instant 3,
\* and a value that is no timestamp
ScheduleTimes ==
    {RawNone, RawTime(0, 0), RawTime(2, 0), RawTime(2, NaiveOffset), RawTime(3, 1),
     RawTime(3, 0), RawInvalid}

\* an entry of config['scheduled_streams']: a mapping or a list, its 'id', its
\* 'schedule' block (a mapping, also when absent or empty, or a string), and
\* the 'start' and 'end' of the block
ScheduledEntry(k, i, sc, s, e) ==
    [kind |-> k, id |-> i, schedule |-> sc, start |-> s, end |-> e]

\* entries that are no mapping, have no id, or have a string as schedule block
MalformedEntries ==
    {ScheduledEntry("list", NoId, "dict", RawNone, RawNone),
     ScheduledEntry("dict", NoId, "dict", RawNone, RawNone),
     ScheduledEntry("dict", 2, "str", RawNone, RawNone)}

\* entries of config['scheduled_streams']
ScheduledEntries ==
    {ScheduledEntry("dict", i, "dict", s, e) :
        i \in MapIds, s \in ScheduleTimes, e \in ScheduleTimes}
    \cup MalformedEntries

\* create_app at instant 1, before setup_scheduled_streams: the static stream 1
\* is in stream_map and the list holds two scheduled entries
InitSched ==
    /\ InitSupervisor
    /\ stream_map = [i \in MapIds |-> IF i \in base_stream_ids THEN StaticDef ELSE NoDef]
    /\ clock = 1
    /\ scheduled_streams \in [1..2 -> ScheduledEntries]
    /\ static_stream = DefaultStream
    /\ loader = [pos |-> 0, now |-> 0, at |-> "entry"]
    /\ jobs = [j \in JobIds |-> NoJob]
    /\ plan = NoPlan /\ disk = NoDisk

NextSched ==
    \/ setup_scheduled_streams
    \/ load_entry
    \/ add_end_job
    \/ \E j \in JobIds : run_job(JobThread, j)
    \/ \E t \in Threads : activate_scheduled_stream(t)
    \/ \E t \in Threads : insert_stream(t)
    \/ \E t \in Threads : deactivate_scheduled_stream(t)
    \/ \E t \in Threads : call_stop(t)
    \/ \E t \in Threads : s_loop(t)
    \/ \E t \in Threads : pop_stream(t)
    \/ \E t \in Threads : respond(t)
    \/ time_passes

SpecSched == InitSched /\ [][NextSched]_vars

\* ============================== the API adds a stream beside the schedule
\* api.py lines 217-220: new_id = max(stream_map.keys()) + 1 if stream_map else 1
new_id == IF \A i \in MapIds : stream_map[i] = NoDef THEN 1
          ELSE 1 + CHOOSE i \in MapIds :
                      stream_map[i] # NoDef /\ \A k \in MapIds : stream_map[k] # NoDef => k <= i

\* api.py lines 209-220: POST /api/streams with the required fields; the
\* application serves requests once create_app has loaded the schedule
add_stream(t) ==
    /\ pc[t] = "idle" /\ req[t].op = "none"
    /\ loader.pos > Len(scheduled_streams) /\ req[LoaderThread].op = "none"
    /\ calls < MaxCalls
    /\ new_id \in MapIds
    /\ calls' = calls + 1
    /\ req' = [req EXCEPT ![t] = [EmptyReq EXCEPT !.op = "add", !.at = "insert",
                                                  !.sid = new_id, !.def = AddedDef]]
    /\ UNCHANGED <<shared, procs, pc, frame, hist, outer>>

\* api.py lines 270-271: stream_map[new_id] = new_stream, answered 201
store_stream(t) ==
    /\ pc[t] = "idle" /\ req[t].op = "add" /\ req[t].at = "insert"
    /\ stream_map' = [stream_map EXCEPT ![req[t].sid] = req[t].def]
    /\ req' = [req EXCEPT ![t].at = "done", ![t].status = 201]
    /\ UNCHANGED <<shared, procs, pc, frame, hist, calls, clock, written, sch>>

\* create_app at instant 1, before setup_scheduled_streams: the static stream 1
\* is in stream_map and the list holds one scheduled entry
InitApi ==
    /\ InitSupervisor
    /\ stream_map = [i \in MapIds |-> IF i \in base_stream_ids THEN StaticDef ELSE NoDef]
    /\ clock = 1
    /\ scheduled_streams \in [1..1 -> ScheduledEntries]
    /\ static_stream = DefaultStream
    /\ loader = [pos |-> 0, now |-> 0, at |-> "entry"]
    /\ jobs = [j \in JobIds |-> NoJob]
    /\ plan = NoPlan /\ disk = NoDisk

NextApi ==
    \/ setup_scheduled_streams
    \/ load_entry
    \/ add_end_job
    \/ \E j \in JobIds : run_job(JobThread, j)
    \/ \E t \in Threads : activate_scheduled_stream(t)
    \/ \E t \in Threads : insert_stream(t)
    \/ \E t \in Threads : deactivate_scheduled_stream(t)
    \/ \E t \in Threads : call_stop(t)
    \/ \E t \in Threads : s_loop(t)
    \/ \E t \in Threads : pop_stream(t)
    \/ \E t \in Threads : add_stream(t)
    \/ \E t \in Threads : store_stream(t)
    \/ \E t \in Threads : respond(t)
    \/ time_passes

SpecApi == InitApi /\ [][NextApi]_vars

\* ================================================== starts of a process
RequestThread == "t1"    \* the requests are served one after the other

\* the static stream of the configuration: every custom_ffmpeg with and
\* without a source; every region list (none, "xx" blocked, only "xx"
\* allowed) with every list of variants; a missing
\* or unknown ffmpeg_profile
StartDefinitions ==
    {[DefaultStream EXCEPT !.custom_ffmpeg = c, !.source = src] :
        c \in {NoCustom, CustomString, CustomList} \cup CustomMappings,
        src \in {"src", NoSource}}
    \cup {[DefaultStream EXCEPT !.regions_allowed = rl[1], !.regions_blocked = rl[2],
                                !.adaptive_bitrates = ab] :
             rl \in {<<{}, {}>>, <<{}, {"xx"}>>, <<{"xx"}, {}>>},
             ab \in {<<>>, <<VariantHd>>, <<VariantHdCustom>>,
                     <<VariantHdCustom, VariantHd>>}}
    \cup {[DefaultStream EXCEPT !.adaptive_bitrates = ab] :
             ab \in {<<VariantHd, VariantAudio>>, <<VariantHd, VariantDefault>>}}
    \cup {[DefaultStream EXCEPT !.ffmpeg_profile = pr] : pr \in {NoProfile, "q"}}

\* an application that serves the static stream 1 and has no scheduled stream
InitStart ==
    /\ InitSupervisor
    /\ stream_map = [i \in MapIds |-> IF i = 1 THEN StaticDef ELSE NoDef]
    /\ clock = 0
    /\ scheduled_streams = <<>>
    /\ static_stream \in StartDefinitions
    /\ loader = [pos |-> 1, now |-> 0, at |-> "entry"]
    /\ jobs = [j \in JobIds |-> NoJob]
    /\ plan = NoPlan /\ disk = NoDisk

\* ?variant= of the requests: also the names of the keys of the base
\* definition and of the audio route
NextStart ==
    \/ \E sid \in MapIds, region \in Regions,
          vn \in RequestVariants \cup {DEFAULT_VARIANT_KEY, AUDIO_VARIANT} :
          calls < MaxViewers /\ stream_media(RequestThread, sid, vn, FALSE, region)
    \/ \E sid \in MapIds, region \in Regions :
          calls < MaxViewers /\ audio_only(RequestThread, sid, region)
    \/ call_get_or_start(RequestThread)
    \/ g_insert(RequestThread)
    \/ g_lockref(RequestThread)
    \/ g_acquire(RequestThread)
    \/ g_lookup(RequestThread)
    \/ g_poll(RequestThread)
    \/ g_spawn(RequestThread)
    \/ g_store(RequestThread)
    \/ g_exit(RequestThread)
    \/ unpack_result(RequestThread)
    \/ respond(RequestThread)
    \/ \E h \in Handles : process_exits(h)

SpecStart == InitStart /\ [][NextStart]_vars

\* =============================================== building an invocation
\* A text is a sequence of characters. A run of characters that are neither
\* whitespace nor a quote, a backslash or a brace is written as one symbol
\* ("transcode", "proto://x"): str.format and shlex treat such a run alike.
MaxTemplate == 3     \* length of the command templates that are enumerated

\* the template "transcode -i {source} out.ts"
TranscodeTemplate ==
    <<"transcode", " ", "-i", " ", "{", "source", "}", " ", "out.ts">>

\* templates with a placeholder inside quotes, with {id} and {name}, with a
\* doubled brace
LongTemplates ==
    {TranscodeTemplate,
     <<"-i", " ", "'", "{", "source", "}", "'">>,
     <<"-i", " ", "\"", "{", "source", "}", "\"">>,
     <<"{", "id", "}", " ", "{", "name", "}">>,
     <<"{", "{", "source", "}", "}">>}

Templates ==
    UNION {[1..n -> {"transcode", "source", "name", " ", "'", "\"", "\\", "{", "}"}] :
              n \in 0..MaxTemplate}
    \cup LongTemplates

\* the result of a call that raised
Raised == [raised |-> TRUE, value |-> <<>>]
Returned(v) == [raised |-> FALSE, value |-> v]

\* x followed by the text of r, when r was returned
After(x, r) == IF r.raised THEN r ELSE Returned(x \o r.value)

\* positions of s from i on that hold the character c
PositionsFrom(s, i, c) == {j \in i..Len(s) : s[j] = c}

Least(S) == CHOOSE x \in S : \A y \in S : x <= y

\* str.format(**context), line 138: "{{" and "}}" are literal braces, a field
\* in braces is replaced by the value of that name; an unclosed or nested
\* brace, a lone "}" (ValueError), an empty field (IndexError) and a name
\* that context does not have (KeyError) raise; a value is not scanned again
RECURSIVE format_from(_, _, _)
format_from(s, i, context) ==
    IF i > Len(s) THEN Returned(<<>>)
    ELSE IF s[i] = "{"
    THEN IF i < Len(s) /\ s[i + 1] = "{"
         THEN After(<<"{">>, format_from(s, i + 2, context))
         ELSE IF PositionsFrom(s, i + 1, "}") = {} THEN Raised
         ELSE LET j == Least(PositionsFrom(s, i + 1, "}"))
                  field_name == SubSeq(s, i + 1, j - 1)
              IN IF Len(field_name) = 1 /\ field_name[1] \in DOMAIN context
                 THEN After(context[field_name[1]], format_from(s, j + 1, context))
                 ELSE Raised
    ELSE IF s[i] = "}"
    THEN IF i < Len(s) /\ s[i + 1] = "}"
         THEN After(<<"}">>, format_from(s, i + 2, context))
         ELSE Raised
    ELSE After(<<s[i]>>, format_from(s, i + 1, context))

\* shlex.split(s): shlex(s, posix=True) with whitespace_split and no
\* commenters, read to the end. state is ' ' between tokens, 'a' inside a
\* word, a quote inside quotes, the backslash after an escape character
RECURSIVE read_token(_, _, _, _, _, _, _)
read_token(s, i, state, escapedstate, token, quoted, out) ==
    LET emitted == IF token # <<>> \/ quoted THEN Append(out, token) ELSE out IN
    IF i > Len(s)
    THEN IF state \in {"'", "\"", "\\"} THEN Raised
         ELSE Returned(emitted)
    ELSE LET nextchar == s[i] IN
    IF state = " "
    THEN IF nextchar = " "
         THEN read_token(s, i + 1, " ", escapedstate, <<>>, FALSE, out)
         ELSE IF nextchar = "\\"
         THEN read_token(s, i + 1, "\\", "a", <<>>, FALSE, out)
         ELSE IF nextchar \in {"'", "\""}
         THEN read_token(s, i + 1, nextchar, escapedstate, <<>>, TRUE, out)
         ELSE read_token(s, i + 1, "a", escapedstate, <<nextchar>>, FALSE, out)
    ELSE IF state \in {"'", "\""}
    THEN IF nextchar = state
         THEN read_token(s, i + 1, "a", escapedstate, token, TRUE, out)
         ELSE IF nextchar = "\\" /\ state = "\""
         THEN read_token(s, i + 1, "\\", state, token, TRUE, out)
         ELSE read_token(s, i + 1, state, escapedstate, Append(token, nextchar), TRUE, out)
    ELSE IF state = "\\"
    THEN LET kept == IF escapedstate \in {"'", "\""} /\ nextchar # "\\"
                        /\ nextchar # escapedstate
                     THEN Append(token, "\\") ELSE token
         IN read_token(s, i + 1, escapedstate, escapedstate, Append(kept, nextchar),
                       quoted, out)
    ELSE IF nextchar = " "
         THEN read_token(s, i + 1, " ", escapedstate, <<>>, FALSE, emitted)
         ELSE IF nextchar \in {"'", "\""}
         THEN read_token(s, i + 1, nextchar, escapedstate, token, TRUE, out)
         ELSE IF nextchar = "\\"
         THEN read_token(s, i + 1, "\\", "a", token, quoted, out)
         ELSE read_token(s, i + 1, "a", escapedstate, Append(token, nextchar), quoted, out)

shlex_split(s) == read_token(s, 1, " ", " ", <<>>, FALSE, <<>>)

\* bool() of the values of the 'shell' entry of a custom_ffmpeg mapping
bool(v) == v \in {"True", "'false'"}

\* custom_ffmpeg with a command template: the shorthand string of line 118, or
\* a mapping with 'command' and 'shell'
CustomCommands ==
    {[form |-> "str", command |-> c, shell |-> "absent"] : c \in Templates}
    \cup {[form |-> "dict", command |-> c, shell |-> sh] :
             c \in Templates, sh \in {"absent", "True", "False", "'false'"}}
NoCommand == [form |-> "absent", command |-> <<>>, shell |-> "absent"]

\* lines 129-133
format_context(stream_config) ==
    [source |-> stream_config.source, id |-> <<stream_config.id>>,
     name |-> <<stream_config.name>>]

\* lines 135-142 for a string template, tokenizing the template before the
\* placeholders are replaced
command_split_first(command_template, shell, context) ==
    LET split == shlex_split(command_template)
        parts == IF split.raised THEN <<>> ELSE split.value
        done == [k \in DOMAIN parts |-> format_from(parts[k], 1, context)]
    IN IF shell THEN format_from(command_template, 1, context)
       ELSE IF split.raised \/ \E k \in DOMAIN done : done[k].raised THEN Raised
       ELSE Returned([k \in DOMAIN done |-> done[k].value])

\* lines 135-142 for a string template: the formatted string when shell is
\* set, its tokens otherwise
command_of_string(command_template, shell, context) ==
    LET formatted == format_from(command_template, 1, context) IN
    IF formatted.raised THEN Raised
    ELSE IF shell THEN formatted
    ELSE shlex_split(formatted.value)

\* ---------------------------------------------------------- the outputs
\* 'hwaccel' of a profile: absent, or a mapping with 'type' and 'device'
NoHwaccel == [present |-> FALSE, type |-> "None", device |-> "None"]
HwaccelBlocks ==
    {NoHwaccel} \cup {[present |-> TRUE, type |-> ty, device |-> dv] :
                         ty \in {"None", "", "nvidia", "vaapi", "videotoolbox", "qsv"},
                         dv \in {"None", "int:0", "int:1", "/dev/dri/renderD128"}}

\* `if device:` and str(device), lines 197-199
truthy(v) == v \notin {"None", "", "int:0"}
str(v) == IF v = "int:0" THEN "0" ELSE IF v = "int:1" THEN "1" ELSE v

\* lines 188-194
hwaccel_flags(hw_type) ==
    IF hw_type = "nvidia" THEN <<"-hwaccel", "cuda">>
    ELSE IF hw_type = "vaapi" THEN <<"-hwaccel", "vaapi">>
    ELSE IF hw_type = "videotoolbox" THEN <<"-hwaccel", "videotoolbox">>
    ELSE <<>>

\* _apply_hwaccel, lines 179-201: the extra global arguments
apply_hwaccel(hwaccel_conf) ==
    IF ~ hwaccel_conf.present THEN <<>>
    ELSE IF ~ truthy(hwaccel_conf.type) THEN <<>>
    ELSE hwaccel_flags(hwaccel_conf.type)
         \o (IF truthy(hwaccel_conf.device)
             THEN <<"-hwaccel_device", str(hwaccel_conf.device)>> ELSE <<>>)

\* 'output_format' of a profile
OutputFormats == {"ts", "hls", "ll-hls", "dash", "rtsp", "audio"}
Segmented == {"hls", "ll-hls", "dash"}

\* the process keys whose output directories are looked at, and a directory:
\* OUTPUT_BASE / str(stream_id) / variant_key
PlanKeys == {<<1, "default">>, <<1, "hd">>, <<2, "default">>}
NoDir == [exists |-> FALSE, files |-> {}]
Dir(F) == [exists |-> TRUE, files |-> F]

\* _build_output_path, lines 157-162: target_dir.mkdir(parents=True, exist_ok=True)
mkdir(d, k) == [d EXCEPT ![k] = IF @.exists THEN @ ELSE Dir({})]

\* _clean_output_path, lines 165-176, of a directory: shutil.rmtree(path)
clean_output_path(d, k) == [d EXCEPT ![k] = IF @.exists THEN NoDir ELSE @]

\* the file name of the manifest, lines 207 and 229
manifest_name(output_format) == IF output_format = "dash" THEN "manifest.mpd" ELSE "index.m3u8"

\* ---------------------------------------------- the steps of one start
\* the stream_config, the profile and the process key of a start: a custom
\* command, or a profile with its hwaccel block and its output format
PlanInput(c, src, hw, fmt, k) ==
    [stream_config |-> [id |-> "1", name |-> "one", source |-> src, custom_ffmpeg |-> c],
     hwaccel |-> hw, output_format |-> fmt, key |-> k]

PlanInputs ==
    {PlanInput(c, src, NoHwaccel, "ts", <<1, "default">>) :
        c \in CustomCommands,
        \* stream_config['source']: absent, a URL, a path with a blank in it,
        \* a value with a quote in it
        src \in {<<>>, <<"proto://x">>, <<"my", " ", "file">>, <<"it", "'", "s">>}}
    \cup {PlanInput(NoCommand, src, hw, fmt, k) :
             src \in {<<>>, <<"proto://x">>}, hw \in HwaccelBlocks,
             fmt \in OutputFormats, k \in PlanKeys}

NotBuilt == Returned(<<"unset">>)

\* line 293: the try block of a start is entered; earlier runs have left
\* directories behind
InitPlan ==
    /\ InitSupervisor
    /\ stream_map = [i \in MapIds |-> IF i = 1 THEN StaticDef ELSE NoDef]
    /\ clock = 0
    /\ scheduled_streams = <<>>
    /\ static_stream = DefaultStream
    /\ loader = [pos |-> 1, now |-> 0, at |-> "entry"]
    /\ jobs = [j \in JobIds |-> NoJob]
    /\ \E in \in PlanInputs :
          /\ plan = [at |-> "prepare", input |-> in, command |-> NotBuilt,
                     use_shell |-> FALSE, extra_global_args |-> <<>>,
                     output_target |-> "pipe:1"]
          /\ disk \in (IF in.stream_config.custom_ffmpeg = NoCommand
                       THEN [PlanKeys -> {NoDir, Dir({}), Dir({"seg1.ts"})}]
                       ELSE {[k \in PlanKeys |-> NoDir]})

\* line 294: custom_command = _prepare_custom_ffmpeg_command(stream_config);
\* an exception leaves through line 405
p_prepare ==
    /\ plan.at = "prepare"
    /\ LET custom_conf == plan.input.stream_config.custom_ffmpeg
           shell == bool(custom_conf.shell)
           command == command_of_string(custom_conf.command, shell,
                                        format_context(plan.input.stream_config))
       IN plan' = IF custom_conf.form = "absent" \/ custom_conf.command = <<>>
                  THEN [plan EXCEPT !.at = "resolve"]
                  ELSE IF command.raised
                  THEN [plan EXCEPT !.at = "failed", !.command = command]
                  ELSE [plan EXCEPT !.at = "popen", !.command = command,
                                    !.use_shell = shell]
    /\ UNCHANGED <<shared, procs, pc, frame, hist, calls, req, web, scheduled_streams,
                   static_stream, loader, jobs, disk>>

\* lines 296-305: Popen(command, shell=use_shell); an empty argument vector
\* and a program that is not there make Popen raise
p_popen ==
    /\ plan.at = "popen"
    /\ \/ /\ plan.use_shell \/ plan.command.value # <<>>
          /\ plan' = [plan EXCEPT !.at = "started"]
       \/ plan' = [plan EXCEPT !.at = "failed"]
    /\ UNCHANGED <<shared, procs, pc, frame, hist, calls, req, web, scheduled_streams,
                   static_stream, loader, jobs, disk>>

\* lines 313-318: no source, no start
p_resolve ==
    /\ plan.at = "resolve"
    /\ plan' = [plan EXCEPT !.at = IF plan.input.stream_config.source = <<>>
                                   THEN "failed" ELSE "hwaccel"]
    /\ UNCHANGED <<shared, procs, pc, frame, hist, calls, req, web, scheduled_streams,
                   static_stream, loader, jobs, disk>>

\* lines 352-353
p_hwaccel ==
    /\ plan.at = "hwaccel"
    /\ plan' = [plan EXCEPT !.at = "output",
                            !.extra_global_args = apply_hwaccel(plan.input.hwaccel)]
    /\ UNCHANGED <<shared, procs, pc, frame, hist, calls, req, web, scheduled_streams,
                   static_stream, loader, jobs, disk>>

\* lines 365-376, with _build_hls_output and _build_dash_output: the directory
\* of the key is made, then removed with all that is in it; a removal that
\* fails (OSError) is passed over and leaves the directory as it was
p_output ==
    /\ plan.at = "output"
    /\ LET fmt == plan.input.output_format
           k == plan.input.key
           made == mkdir(disk, k)
       IN IF fmt \in Segmented
          THEN /\ plan' = [plan EXCEPT !.at = "run", !.output_target = manifest_name(fmt)]
               /\ \/ disk' = clean_output_path(made, k)
                  \/ made[k].files # {} /\ disk' = made
          ELSE /\ plan' = [plan EXCEPT !.at = "run",
                                       !.output_target = IF fmt = "rtsp" THEN "rtsp"
                                                         ELSE "pipe:1"]
               /\ disk' = disk
    /\ UNCHANGED <<shared, procs, pc, frame, hist, calls, req, web, scheduled_streams,
                   static_stream, loader, jobs>>

\* lines 378-382: the process is started, or run_async raises
p_run ==
    /\ plan.at = "run"
    /\ \/ plan' = [plan EXCEPT !.at = "started"]
       \/ plan' = [plan EXCEPT !.at = "failed"]
    /\ UNCHANGED <<shared, procs, pc, frame, hist, calls, req, web, scheduled_streams,
                   static_stream, loader, jobs, disk>>

NextPlan ==
    \/ p_prepare
    \/ p_popen
    \/ p_resolve
    \/ p_hwaccel
    \/ p_output
    \/ p_run

SpecPlan == InitPlan /\ [][NextPlan]_vars

\* ==================================== supervisor calls, fairly scheduled
MaxLive == 2         \* calls started in a run of SpecLive

\* a step of thread t inside a call it has started
CallStep(t) ==
    \/ g_insert(t) \/ g_lockref(t) \/ g_acquire(t) \/ g_lookup(t) \/ g_poll(t)
    \/ g_spawn(t) \/ g_store(t) \/ g_exit(t)
    \/ s_loop(t) \/ s_acquire(t) \/ s_pop(t) \/ s_poll(t) \/ s_term(t) \/ s_wait(t)
    \/ s_kill(t) \/ s_release(t)
    \/ c_loop(t) \/ exception_propagates(t)

NextLive ==
    \/ \E t \in Threads, sid \in StreamIds, pv \in Variants \cup {NoVariant} :
          calls < MaxLive /\ get_or_start_stream_process(t, sid, pv)
    \/ \E t \in Threads, sid \in StreamIds, pv \in Variants \cup {NoVariant} :
          calls < MaxLive /\ stop_stream_process(t, sid, pv)
    \/ \E t \in Threads : calls < MaxLive /\ cleanup_all_processes(t)
    \/ \E t \in Threads : CallStep(t)
    \/ \E h \in Handles : process_exits(h)

\* every thread that can take a step of its call takes one in the end: the
\* threads are scheduled, and a spawn, a terminate, a wait or a kill completes
SpecLive == Init /\ [][NextLive]_vars /\ \A t \in Threads : WF_vars(CallStep(t))

\* ================================================================ claims
InGetOrStart(t) == frame[t].op = "get_or_start"
InStop(t) == frame[t].op \in {"stop", "cleanup"}
SpawnedFor(k) == {h \in Handles : hkey[h] = k}
LiveFor(k) == {h \in Handles : hkey[h] = k /\ poll_is_None(h)}
Registered(e) == \E k \in Keys : RUNNING_PROCESSES[k] = e

\* C1: while nothing has been stopped, has exited or has failed to start, the
\* get_or_start calls made for one Process Key spawn at most one process between
\* them and every call that is about to return holds that one handle.
C1_OneSpawnPerKey ==
    quiet =>
        /\ \A k \in Keys : Cardinality(SpawnedFor(k)) <= 1
        /\ \A t \in Threads :
              (InGetOrStart(t) /\ pc[t] = "g_exit")
                 => SpawnedFor(frame[t].key) = {frame[t].result}

\* C2: in every reachable state each Process Key has at most one process that
\* was spawned for it and has not yet exited.
C2_AtMostOneLivePerKey ==
    \A k \in Keys : Cardinality(LiveFor(k)) <= 1

\* C3: a handle cached in the registry is cached under the key of the call that
\* spawned it, and no handle is cached under two different keys.
C3_HandleUnderOwnKey ==
    /\ \A k \in Keys :
          (key_present(k) /\ entProc[RUNNING_PROCESSES[k]] # NoHandle)
             => hkey[entProc[RUNNING_PROCESSES[k]]] = k
    /\ \A k1, k2 \in Keys :
          (k1 # k2 /\ key_present(k1) /\ key_present(k2)
             /\ entProc[RUNNING_PROCESSES[k1]] # NoHandle)
             => entProc[RUNNING_PROCESSES[k1]] # entProc[RUNNING_PROCESSES[k2]]

\* C3 witness: two different keys are registered, each with a cached handle.
C3_Witness ==
    \E k1, k2 \in Keys :
        /\ k1 # k2 /\ key_present(k1) /\ key_present(k2)
        /\ entProc[RUNNING_PROCESSES[k1]] # NoHandle
        /\ entProc[RUNNING_PROCESSES[k2]] # NoHandle

\* C4: a get_or_start call that was issued while a running process was cached
\* under its key, with nothing stopped, exited or failed since, returns that
\* handle and the call spawns nothing.
C4_ReuseReturnsCached ==
    \A t \in Threads :
        (quiet /\ InGetOrStart(t) /\ pc[t] = "g_exit" /\ frame[t].cachedAtStart # NoHandle)
           => (frame[t].result = frame[t].cachedAtStart /\ frame[t].attempts = 0)

\* C5: a get_or_start call issued after a stop call has returned never returns
\* a handle that this stop removed and terminated; when it returns a handle for
\* a key that was absent at its start, the handle was spawned after that start.
C5_StoppedHandleNeverReturned ==
    \A t \in Threads :
        (InGetOrStart(t) /\ pc[t] = "g_exit" /\ frame[t].result # NoHandle)
           => /\ frame[t].result \notin frame[t].stoppedAtStart
              /\ frame[t].result >= frame[t].freshFrom

\* C5 witness: stop has returned for a handle of the key, and a later
\* get_or_start of that key is returning a different, newly spawned handle.
C5_Witness ==
    \E t \in Threads :
        /\ InGetOrStart(t) /\ pc[t] = "g_exit" /\ frame[t].result # NoHandle
        /\ frame[t].attempts = 1
        /\ \E h \in frame[t].stoppedAtStart :
              hkey[h] = frame[t].key /\ termCount[h] = 1

\* C6: a process is spawned only by the spawn step of a get_or_start call that
\* has made no attempt yet; no call makes a second attempt; a call that finds
\* no running process in its entry makes its attempt, and a successful start
\* puts the new handle in the slot that held the dead one.
C6_SpawnStep ==
    /\ nextHandle' # nextHandle =>
          /\ nextHandle' = nextHandle + 1
          /\ \E t \in Threads :
                /\ InGetOrStart(t) /\ pc[t] = "g_spawn" /\ frame[t].attempts = 0
                /\ pc'[t] = "g_store" /\ frame'[t].process = nextHandle
    /\ \A t \in Threads : frame'[t].attempts <= 1
    /\ \A t \in Threads :
          (pc[t] = "g_poll" /\ pc'[t] # "g_poll"
             /\ ~ is_running(entProc[frame[t].procData])) => pc'[t] = "g_spawn"
    /\ \A t \in Threads :
          (pc[t] = "g_store" /\ pc'[t] = "g_exit" /\ frame'[t].result # NoHandle)
             => /\ entProc'[frame[t].procData] = frame'[t].result
                /\ frame'[t].result = frame[t].process

\* C6: every step of the supervisor satisfies C6_SpawnStep: spawning happens
\* only in get_or_start, once per call, and is never retried.
C6_OneAttemptPerCall == [][C6_SpawnStep]_vars

\* C6 witness: a process of the key died on its own and the call is returning
\* the handle it spawned and cached in its place.
C6_Witness ==
    \E t \in Threads :
        /\ InGetOrStart(t) /\ pc[t] = "g_exit" /\ frame[t].attempts = 1
        /\ frame[t].result # NoHandle
        /\ entProc[frame[t].procData] = frame[t].result
        /\ \E h \in Handles :
              /\ hkey[h] = frame[t].key /\ pstate[h] = "exited"
              /\ termCount[h] = 0 /\ h < frame[t].result

\* C7 as claimed: when a failed get_or_start returns, the registry holds no
\* entry for its Process Key.
C7_NoEntryAfterFailure ==
    \A t \in Threads :
        (InGetOrStart(t) /\ pc[t] = "g_exit" /\ frame[t].result = NoHandle)
           => ~ key_present(frame[t].key)

\* C7 amended: the return of a failed get_or_start releases the lock it took
\* and leaves the registry as it is, and no handle made by the failed attempt is
\* cached in any entry; the entry of the key is not removed.
C7_FailureStep ==
    \A t \in Threads :
        (InGetOrStart(t) /\ pc[t] = "g_exit" /\ pc'[t] = "idle"
           /\ frame[t].result = NoHandle)
           => /\ frame[t].attempts = 1
              /\ lockOwner'[frame[t].lockRef] = NoThread
              /\ \A e \in Entries : lockOwner'[e] # t
              /\ RUNNING_PROCESSES' = RUNNING_PROCESSES
              /\ frame[t].process # NoHandle
                    => \A e \in Entries : entProc'[e] # frame[t].process

\* C7 amended: every return of a failed get_or_start satisfies C7_FailureStep.
C7_FailureLeavesNoHandle == [][C7_FailureStep]_vars

\* C7 witness: a start failed after the process was created; the call is about
\* to return None while the entry of its key is still registered.
C7_Witness ==
    \E t \in Threads :
        /\ InGetOrStart(t) /\ pc[t] = "g_exit" /\ frame[t].result = NoHandle
        /\ frame[t].process # NoHandle
        /\ key_present(frame[t].key)

\* C8 as claimed: when stop requests a termination, no key matched by the call
\* is still registered.
C8_AllRemovedBeforeTerminate ==
    \A t \in Threads :
        (InStop(t) /\ pc[t] = "s_term")
           => \A i \in 1..Len(frame[t].keys) : ~ key_present(frame[t].keys[i])

\* C8 amended: stop removes the entry of a matching key before it requests the
\* termination of that entry's process: while stop terminates, waits for or
\* kills a process, the entry it took the process from is registered under no
\* key and the process is cached in no registered entry.
C8_EntryRemovedBeforeTerminate ==
    \A t \in Threads :
        (InStop(t) /\ pc[t] \in {"s_term", "s_wait", "s_kill"})
           => /\ ~ Registered(frame[t].procData)
              /\ frame[t].process \notin RegisteredHandles

\* C8 witness: stop is about to terminate the process of its first key while
\* its second matching key is still registered.
C8_Witness ==
    \E t \in Threads :
        /\ InStop(t) /\ pc[t] = "s_term" /\ Len(frame[t].keys) = 2
        /\ frame[t].idx = 1 /\ key_present(frame[t].keys[2])

\* C9: a get_or_start call never ends with an exception raised by a lookup of
\* its key in the registry.
C9_NoKeyError ==
    \A t \in Threads : InGetOrStart(t) => pc[t] # "raised"

\* C10: stop signals only a removed process that was running when it polled it;
\* it calls terminate once, then waits: a process that exits during the wait
\* gets no kill, one that does not gets exactly one kill, and stop goes on to
\* release the lock and continue in both cases.
C10_StopStep ==
    \A t \in Threads :
        /\ (pc[t] = "s_poll" /\ pc'[t] # "s_poll") =>
              /\ is_running(frame'[t].process) => pc'[t] = "s_term"
              /\ ~ is_running(frame'[t].process) =>
                    (pc'[t] = "s_release" /\ termCount' = termCount /\ killCount' = killCount)
        /\ (pc[t] = "s_term" /\ pc'[t] # "s_term") =>
              /\ pc'[t] = "s_wait"
              /\ termCount'[frame[t].process] = 1 /\ killCount' = killCount
        /\ (pc[t] = "s_wait" /\ pc'[t] # "s_wait") =>
              /\ termCount' = termCount /\ killCount' = killCount
              /\ pstate[frame[t].process] = "exited" => pc'[t] = "s_release"
              /\ pstate[frame[t].process] # "exited" => pc'[t] = "s_kill"
        /\ (pc[t] = "s_kill" /\ pc'[t] # "s_kill") =>
              /\ pc'[t] = "s_release"
              /\ killCount'[frame[t].process] = 1 /\ termCount' = termCount

C10_Signals ==
    \A h \in Handles :
        /\ termCount[h] <= 1 /\ killCount[h] <= termCount[h]
        /\ pstate[h] = "killed" => killCount[h] = 1
        /\ pstate[h] = "termed" => (termCount[h] = 1 /\ killCount[h] = 0)
        /\ (termCount[h] = 1 /\ killCount[h] = 0) =>
              \/ pstate[h] \in {"termed", "exited"}

\* C10: every step of stop satisfies C10_StopStep, and in every state a process
\* has received at most one terminate and at most one kill, the kill only
\* after the terminate.
C10_GracefulThenKill == [][C10_StopStep]_vars /\ []C10_Signals

\* C10 witness: the process did not exit during the wait, stop has issued its
\* one kill and is going on to release the lock.
C10_Witness ==
    \E t \in Threads :
        /\ InStop(t) /\ pc[t] = "s_release" /\ frame[t].process # NoHandle
        /\ termCount[frame[t].process] = 1 /\ killCount[frame[t].process] = 1

\* the Process Key of the request of thread t
own_key(t) == process_key(req[t].sid, req[t].variant)

\* thread t runs a viewer request whose get_or_start call returned a handle
Served(t) ==
    req[t].op \in Viewers /\ req[t].at \in {"back", "done"} /\ req[t].ret # NoHandle

\* C11: once the request of a private (overlap) viewer has finished, the process
\* it was handed is not left running: stop has been called for the key of the
\* instance, or the process has exited.
C11_PrivateStoppedAtEnd ==
    \A t \in Threads :
        (Served(t) /\ req[t].at = "done" /\ req[t].overlap)
           => ~ (pstate[req[t].ret] = "running" /\ termCount[req[t].ret] = 0)

\* C12: a viewer request whose get_or_start call returned a process (started or
\* reused) is relayed and not answered with a server error.
C12_SuccessfulStartIsRelayed ==
    \A t \in Threads :
        (Served(t) /\ req[t].at = "done") => req[t].status = 200

\* C13: two private (overlap) requests for the same stream that are under way
\* have different Process Keys, neither of them a shared key, and are handed
\* different processes.
C13_PrivateKeysDistinct ==
    \A t, u \in Threads :
        (t # u /\ req[t].op = "stream_media" /\ req[u].op = "stream_media"
           /\ req[t].overlap /\ req[u].overlap /\ req[t].sid = req[u].sid
           /\ req[t].at # "none" /\ req[u].at # "none")
           => /\ req[t].variant # req[u].variant
              /\ req[t].variant \notin Variants \cup {AUDIO_VARIANT}
              /\ (Served(t) /\ Served(u)) => req[t].ret # req[u].ret

\* C14: when the request of a viewer ends, the end of a shared viewer changes
\* neither the registry nor any process, and the end of a private viewer finds
\* the viewer's own Process Key removed and changes no entry of another key.
C14_DisconnectStep ==
    \A t \in Threads :
        (Served(t) /\ req[t].at = "done" /\ req'[t].at # "done")
           => /\ ~ req[t].overlap =>
                    UNCHANGED <<RUNNING_PROCESSES, entProc, pstate, termCount, killCount>>
              /\ req[t].overlap =>
                    /\ RUNNING_PROCESSES'[own_key(t)] = NoEntry
                    /\ \A k \in Keys \ {own_key(t)} :
                          RUNNING_PROCESSES'[k] = RUNNING_PROCESSES[k]

\* C14: every end of a viewer request satisfies C14_DisconnectStep.
C14_DisconnectTouchesOwnKeyOnly == [][C14_DisconnectStep]_vars

\* C15: a viewer that was handed a shared process has received, when its
\* request stops being served, every chunk the process wrote since the process
\* was handed to it.
C15_ViewerStep ==
    \A t \in Threads :
        (Served(t) /\ ~ req[t].overlap /\ req[t].at = "back" /\ req'[t].at # "back")
           => req'[t].received = written[req[t].ret] - req[t].base

\* C15: every step that ends the service of a shared viewer satisfies C15_ViewerStep.
C15_EveryViewerGetsEveryChunk == [][C15_ViewerStep]_vars

\* a cleanup that starts on an empty registry stops nothing and changes neither
\* the registry nor any process
CleanupOfEmptyRegistry(t) ==
    /\ (pc[t] = "idle" /\ frame'[t].op = "cleanup" /\ regOrder = <<>>)
          => (frame'[t].ids = <<>> /\ UNCHANGED <<shared, procs>>)
    /\ (frame[t].op = "cleanup" /\ pc[t] = "c_loop" /\ frame[t].ids = <<>>
          /\ pc'[t] # "c_loop")
          => (pc'[t] = "idle" /\ UNCHANGED <<shared, procs>>)

\* handles that a stop call of another thread, still under way, has removed
\* from the registry
HeldByStop(t) ==
    UNION {frame[u].popped \cup
             (IF pc[u] = "s_poll" THEN {entProc[frame[u].procData]} ELSE {}) :
           u \in Threads \ {t}}

C16_ClaimedStep ==
    \A t \in Threads :
        /\ (frame[t].op = "cleanup" /\ pc[t] = "c_loop" /\ pc'[t] = "idle" /\ req[t].noG)
              => /\ \A k \in Keys : ~ key_present(k)
                 /\ \A h \in frame[t].registeredAtStart : pstate[h] \in {"exited", "killed"}
        /\ CleanupOfEmptyRegistry(t)

\* C16 as claimed: when a cleanup that no get_or_start call overlapped returns,
\* the registry is empty and every process that was registered at its start has
\* exited or has been killed; a second cleanup stops nothing and changes nothing.
C16_AllDeadAtReturn == [][C16_ClaimedStep]_vars

C16_CleanupStep ==
    \A t \in Threads :
        /\ (frame[t].op = "cleanup" /\ pc[t] = "c_loop" /\ pc'[t] = "idle" /\ req[t].noG)
              => /\ \A k \in Keys : ~ key_present(k)
                 /\ \A h \in frame[t].registeredAtStart :
                       \/ pstate[h] \in {"exited", "killed"}
                       \/ h \in HeldByStop(t)
        /\ CleanupOfEmptyRegistry(t)

\* C16 amended: when a cleanup that no get_or_start call overlapped returns, the
\* registry is empty and every process that was registered at its start has
\* exited, has been killed, or was removed by a stop call of another thread
\* that is still under way; a cleanup that starts on an empty registry stops
\* nothing and changes neither the registry nor any process.
C16_CleanupEmptiesRegistry == [][C16_CleanupStep]_vars

\* C16 witness: a cleanup that no get_or_start overlapped has stopped the
\* processes of two registered keys and is about to return.
C16_Witness ==
    \E t \in Threads :
        /\ frame[t].op = "cleanup" /\ pc[t] = "c_loop" /\ frame[t].ids = <<>>
        /\ req[t].noG
        /\ Cardinality(frame[t].registeredAtStart) = 2

\* thread t runs deactivate for an id that was present when it looked it up,
\* and no viewer request has been under way since
DeactivatedAlone(t) ==
    req[t].op = "deactivate" /\ req[t].def # NoDef /\ req[t].noG

\* no Process Key of stream sid is registered
NoKeyOf(sid) == \A k \in Keys : k[1] = sid => ~ key_present(k)

\* C20: with no viewer request under way, a deactivate of a present id that has
\* ended leaves the id absent from stream_map and no Process Key of the id
\* registered; a deactivate that finds the id absent ends at once and changes
\* neither stream_map nor the process registry.
C20_DeactivateState ==
    \A t \in Threads :
        (DeactivatedAlone(t) /\ req[t].at = "done")
           => (stream_map[req[t].sid] = NoDef /\ NoKeyOf(req[t].sid))

C20_AbsentStep ==
    \A t \in Threads :
        (req[t].op = "deactivate" /\ req[t].at = "start" /\ req'[t].at # "start"
           /\ stream_map[req[t].sid] = NoDef)
           => (req'[t].at = "done" /\ UNCHANGED <<stream_map, shared, procs>>)

C20_DeactivateRemoves == []C20_DeactivateState /\ [][C20_AbsentStep]_vars

\* ---- C17: a scheduled definition whose end is at or before its start is
\* never in the registry: the loader does not activate it and sets no timer
\* for it.  The instants compared are the parsed ones.
EndAtOrBeforeStart(i) ==
    LET start_dt == parse_schedule_datetime(scheduled_streams[i].start)
        end_dt == parse_schedule_datetime(scheduled_streams[i].end)
    IN start_dt # NoTime /\ end_dt # NoTime /\ end_dt <= start_dt

NeverTaken(i) ==
    /\ \A sid \in MapIds : stream_map[sid] # i
    /\ \A j \in JobIds : jobs[j].src # i
    /\ \A t \in Threads : ~(req[t].op = "activate" /\ req[t].def = i)

C17_EndNotAfterStartNeverPresent ==
    \A i \in 1..Len(scheduled_streams) : EndAtOrBeforeStart(i) => NeverTaken(i)

\* the loader is past an entry whose end and start are the same instant in two
\* notations, while the other entry of the same id is in the registry
C17_Witness ==
    \E i, k \in 1..Len(scheduled_streams) :
        /\ loader.pos > Len(scheduled_streams)
        /\ scheduled_streams[i].id = 2 /\ stream_map[2] = k /\ k # i
        /\ scheduled_streams[i].start # scheduled_streams[i].end
        /\ parse_schedule_datetime(scheduled_streams[i].start) = 2
        /\ parse_schedule_datetime(scheduled_streams[i].end) = 2
        /\ clock = MaxTime

\* ---- C18: a scheduled definition with the id of a static stream is never
\* activated, at load or by a timer, whatever its start and end, and the static
\* definition stays in the registry under that id.
C18_StaticIdNeverActivated ==
    /\ \A sid \in base_stream_ids : stream_map[sid] = StaticDef
    /\ \A i \in 1..Len(scheduled_streams) :
          scheduled_streams[i].id \in base_stream_ids => NeverTaken(i)

\* both entries carry the static id, one due at load and one with a start and
\* an end still to come; the load is over and the last instant has come
C18_Witness ==
    /\ loader.pos > Len(scheduled_streams)
    /\ clock = MaxTime
    /\ \A i \in 1..Len(scheduled_streams) : scheduled_streams[i].id \in base_stream_ids
    /\ \E i \in 1..Len(scheduled_streams) :
          /\ parse_schedule_datetime(scheduled_streams[i].start) = NoTime
          /\ parse_schedule_datetime(scheduled_streams[i].end) = 0
    /\ \E i \in 1..Len(scheduled_streams) :
          /\ parse_schedule_datetime(scheduled_streams[i].start) = 2
          /\ parse_schedule_datetime(scheduled_streams[i].end) = 3

\* ---- C19: activate on an id that is in the registry changes nothing: the
\* registry keeps the definition it had, and no step of activate touches the
\* process registry or a process.
C19_ActivateStep ==
    \A t \in Threads :
        (req[t].op = "activate" /\ req'[t] # req[t]) =>
            /\ shared' = shared /\ procs' = procs
            /\ (req[t].at = "start" /\ stream_map[req[t].sid] # NoDef) =>
                   (req'[t].at = "done" /\ stream_map' = stream_map)

C19_ActivateOnPresentIdIsNoOp == [][C19_ActivateStep]_vars

\* before any timer has fired the loader's second activation of id 2 has
\* returned and the registry holds the definition of the first
C19_Witness ==
    /\ calls = 0
    /\ req[LoaderThread].op = "activate" /\ req[LoaderThread].at = "done"
    /\ req[LoaderThread].sid = 2 /\ req[LoaderThread].def = 2
    /\ stream_map[2] = 1

\* the call of thread t goes through its start with definition stream_config
\* and comes out of it without a process
StartsNothing(t) ==
    /\ nextHandle' = nextHandle
    /\ pstate' = pstate
    /\ frame'[t].result = NoHandle
    /\ pc'[t] = "g_exit"

AtStart(t) == pc[t] = "g_spawn" /\ pc'[t] # "g_spawn"

\* ---- C21: when the effective definition has a custom_ffmpeg mapping with no
\* command, or with a command that is neither a string nor a list, the call of
\* get_or_start ends in failure and starts no process, neither the custom
\* command nor the profile-based invocation.
C21_Step ==
    \A t \in Threads :
        (AtStart(t) /\ frame[t].stream_config.custom_ffmpeg.kind = "dict"
            /\ frame[t].stream_config.custom_ffmpeg.command \in {"missing", "int"})
        => StartsNothing(t)

C21_NoCommandStartsNothing == [][C21_Step]_vars

\* ---- C22: when the custom_ffmpeg mapping has a command but an env that is
\* not a mapping or a cwd that is not a string, the call of get_or_start ends
\* in failure and starts no process.
C22_Step ==
    \A t \in Threads :
        (AtStart(t) /\ frame[t].stream_config.custom_ffmpeg.kind = "dict"
            /\ frame[t].stream_config.custom_ffmpeg.command \in {"str", "list"}
            /\ (\/ frame[t].stream_config.custom_ffmpeg.env = "list"
                \/ frame[t].stream_config.custom_ffmpeg.cwd = "int"))
        => StartsNothing(t)

C22_BadEnvOrCwdStartsNothing == [][C22_Step]_vars

\* ---- C23: a viewer request, on /stream or on /audio, for an id that is not
\* in stream_map is answered 404, and one from a region the definition does
\* not admit is answered 403; such a request never reaches the supervisor and
\* receives no chunk.
Refused(t, status) ==
    req[t].at = "done" /\ req[t].status = status /\ req[t].received = 0

C23_UnknownOrBlockedIsRefused ==
    \A t \in Threads :
        req[t].op \in Viewers =>
            /\ req[t].def = NoDef => Refused(t, 404)
            /\ (req[t].def # NoDef
                  /\ ~ is_stream_allowed_for_region(req[t].def, req[t].region))
               => Refused(t, 403)

\* thread t is inside the `with` block of its get_or_start call
InCriticalSection(t) ==
    /\ InGetOrStart(t)
    /\ frame[t].lockRef # NoEntry
    /\ lockOwner[frame[t].lockRef] = t

\* ---- C24: while no key has been removed, every key of the registry has had
\* exactly one entry (slot and lock) created for it, also when two calls make
\* the first access to the key at the same time, and no two calls are inside
\* the critical section of the same key together.
C24_EntryCreatedOnce ==
    quiet =>
        /\ nextEntry - 1 = Len(regOrder)
        /\ \A t, u \in Threads :
              (t # u /\ InCriticalSection(t) /\ InCriticalSection(u))
                 => frame[t].key # frame[u].key

\* entry i of scheduled_streams is a mapping with an id that no static stream
\* has and with an end after its start
Loadable(i) ==
    /\ scheduled_streams[i].kind = "dict"
    /\ scheduled_streams[i].id \in MapIds \ base_stream_ids
    /\ ~ EndAtOrBeforeStart(i)

EndOf(i) == parse_schedule_datetime(scheduled_streams[i].end)
StartOf(i) == parse_schedule_datetime(scheduled_streams[i].start)

\* the end timer of entry i has been set, has fired, and its run is over
Expired(i) ==
    /\ loader.pos > i
    /\ EndOf(i) # NoTime /\ EndOf(i) > loader.now
    /\ jobs[<<scheduled_streams[i].id, "deactivate">>] = NoJob
    /\ \A t \in Threads :
          ~(req[t].op = "deactivate" /\ req[t].sid = scheduled_streams[i].id)

\* ---- C25: an entry loaded with an end in the future gets its end timer
\* when the loader leaves it, whether it was activated at once or waits for
\* its start timer; once the end timer has fired and its run is over the id
\* is absent from stream_map and the entry is not activated again.
C25_ExpiredState ==
    \A i \in 1..Len(scheduled_streams) :
        (Loadable(i) /\ Expired(i)) =>
            /\ stream_map[scheduled_streams[i].id] = NoDef
            /\ \A t \in Threads : ~(req[t].op = "activate" /\ req[t].def = i)
            /\ jobs[<<scheduled_streams[i].id, "activate">>].src # i

C25_TimerStep ==
    \A i \in 1..Len(scheduled_streams) :
        (Loadable(i) /\ loader.pos = i /\ loader'.pos = i + 1
           /\ EndOf(i) # NoTime /\ EndOf(i) > loader.now)
        => jobs'[<<scheduled_streams[i].id, "deactivate">>] =
              [run |-> EndOf(i), def |-> NoDef, src |-> i]

C25_ForwardOnly == []C25_ExpiredState /\ [][C25_TimerStep]_vars

\* no other entry of scheduled_streams has the id of entry i (a Channel
\* Definition has a unique id)
UniqueId(i) ==
    \A k \in 1..Len(scheduled_streams) :
        k # i => scheduled_streams[k].id # scheduled_streams[i].id

\* entry i has a schedule block whose start and end are absent or timestamps
WellFormed(i) ==
    /\ Loadable(i)
    /\ scheduled_streams[i].schedule = "dict"
    /\ scheduled_streams[i].start.kind # "invalid"
    /\ scheduled_streams[i].end.kind # "invalid"

\* the loader has dealt with entry i and the end of the entry has not come
LoadedAndOpen(i) ==
    /\ WellFormed(i) /\ UniqueId(i)
    /\ loader.pos > i
    /\ (EndOf(i) = NoTime \/ clock < EndOf(i))

ActivateJob(i) == jobs[<<scheduled_streams[i].id, "activate">>]

\* ---- C26: an entry with a non-static id and an end that is absent or to
\* come is in stream_map once the loader has dealt with it when its start is
\* absent or due; when its start is to come it is absent from stream_map while
\* its start timer is set, and in stream_map once the timer has fired and run.
C26_PresentFromStart ==
    \A i \in 1..Len(scheduled_streams) :
        LoadedAndOpen(i) =>
            LET id == scheduled_streams[i].id IN
            IF StartOf(i) = NoTime \/ StartOf(i) <= loader.now
            THEN stream_map[id] = i
            ELSE IF ActivateJob(i) # NoJob
            THEN stream_map[id] = NoDef /\ ActivateJob(i).run = StartOf(i)
            ELSE (\A t \in Threads : req[t].op # "activate") => stream_map[id] = i

\* the start timer of an entry with a start at instant 2, set at instant 1, has
\* fired and its run is over; the entry is in stream_map before its end
C26_Witness ==
    \E i \in 1..Len(scheduled_streams) :
        /\ LoadedAndOpen(i) /\ loader.now = 1
        /\ StartOf(i) = 2 /\ EndOf(i) = 3 /\ clock = 2
        /\ ActivateJob(i) = NoJob
        /\ \A t \in Threads : req[t].op = "none"
        /\ stream_map[scheduled_streams[i].id] = i

\* ---- C27: an entry whose end is past at load is never in stream_map and
\* gets no timer; the loader calls deactivate for its id, which leaves the id
\* absent from stream_map.
EndPast(i) == loader.pos >= 1 /\ EndOf(i) # NoTime /\ EndOf(i) <= loader.now

C27_PastState ==
    \A i \in 1..Len(scheduled_streams) : EndPast(i) => NeverTaken(i)

C27_LoaderStep ==
    /\ \A i \in 1..Len(scheduled_streams) :
          (WellFormed(i) /\ EndPast(i) /\ loader.pos = i /\ loader' # loader)
          => /\ loader'.pos = i + 1
             /\ req'[LoaderThread].op = "deactivate"
             /\ req'[LoaderThread].sid = scheduled_streams[i].id
    /\ (req[LoaderThread].op = "deactivate" /\ req[LoaderThread].at # "done"
          /\ req'[LoaderThread].at = "done")
       => stream_map'[req[LoaderThread].sid] = NoDef

C27_PastEndNeverActive == []C27_PastState /\ [][C27_LoaderStep]_vars

\* the loader has deactivated the id of an entry whose end is past, which an
\* earlier entry of the list had put into stream_map
C27_Witness ==
    /\ loader.pos = 3 /\ EndPast(2) /\ WellFormed(2)
    /\ req[LoaderThread].op = "deactivate" /\ req[LoaderThread].at = "done"
    /\ req[LoaderThread].def = 1
    /\ stream_map[scheduled_streams[2].id] = NoDef

\* ---- C28: a malformed entry (no mapping, no id, an end not after the start,
\* a schedule block or a timestamp of the wrong type) is skipped: it is never
\* taken into stream_map or given a timer, and the load goes on to the entries
\* after it.
Malformed(i) ==
    \/ scheduled_streams[i].kind # "dict"
    \/ scheduled_streams[i].id = NoId
    \/ scheduled_streams[i].schedule # "dict"
    \/ scheduled_streams[i].start.kind = "invalid"
    \/ scheduled_streams[i].end.kind = "invalid"
    \/ EndAtOrBeforeStart(i)

C28_MalformedIsSkipped ==
    /\ loader.at # "raised"
    /\ \A i \in 1..Len(scheduled_streams) : Malformed(i) => NeverTaken(i)

\* request r is a /stream request that got as far as its variant name and
\* names a variant its definition does not have
UnknownVariantAsked(r) ==
    /\ r.op = "stream_media"
    /\ r.asked # NoVariant
    /\ r.asked \notin adaptive_bitrates(r.def)

\* ---- C29: a /stream request that has passed the channel and region checks
\* (lines 343-349) and names a variant the definition does not have is
\* answered 404; it never reaches the supervisor, and no step taken while it
\* lasts changes the process registry or starts a process.
C29_State ==
    \A t \in Threads : UnknownVariantAsked(req[t]) => Refused(t, 404)

C29_Step ==
    \A t \in Threads :
        (UnknownVariantAsked(req[t]) \/ UnknownVariantAsked(req'[t]))
        => (shared' = shared /\ nextHandle' = nextHandle /\ frame'[t] = EmptyFrame)

C29_UnknownVariantNotFound == []C29_State /\ [][C29_Step]_vars

\* a request for the variant "zz" has been answered 404 while the registry
\* holds the process an earlier request started
C29_Witness ==
    \E t \in Threads :
        /\ req[t].op = "stream_media" /\ req[t].asked = "zz"
        /\ req[t].at = "done" /\ req[t].status = 404
        /\ RegisteredHandles # {}

\* fields of a definition that a variant replaces
ReplacedFields ==
    {"source", "ffmpeg_profile", "custom_ffmpeg", "source_handler", "use_yt_dlp",
     "yt_dlp_format", "input_options", "input_args"}

\* cfg is parent with every replaceable field that v has taken whole from v
ReplacedWhole(cfg, parent, v) ==
    /\ DOMAIN cfg = DOMAIN parent
    /\ \A f \in DOMAIN parent :
          cfg[f] = IF f \in ReplacedFields /\ f \in DOMAIN v THEN v[f] ELSE parent[f]

\* ---- C30: the definition handed to the supervisor for a request with a
\* variant is the stored definition with each field the variant specifies
\* replaced as a whole by the variant's value; a request without a variant
\* hands over the stored definition, and no request changes the stored one.
C30_State ==
    \A t \in Threads :
        (req[t].op = "stream_media" /\ req[t].cfg # NoConfig) =>
            LET parent == definition(req[t].def)
                named == {i \in DOMAIN parent.adaptive_bitrates :
                             parent.adaptive_bitrates[i].name = req[t].asked}
            IN /\ IF req[t].asked = NoVariant
                  THEN req[t].cfg = parent
                  ELSE \E i \in named :
                          /\ \A j \in named : i <= j
                          /\ ReplacedWhole(req[t].cfg, parent, parent.adaptive_bitrates[i])
               /\ InGetOrStart(t) => frame[t].stream_config = req[t].cfg

C30_VariantReplacesWholeFields ==
    []C30_State /\ [][static_stream' = static_stream]_vars

\* a request with the variant "hd" is in the supervisor with the variant's
\* source and input options, after an earlier request, and the stored
\* definition has its own
C30_Witness ==
    \E t \in Threads :
        /\ req[t].op = "stream_media" /\ req[t].asked = "hd" /\ InGetOrStart(t)
        /\ frame[t].stream_config.source = "src-hd"
        /\ frame[t].stream_config.input_options = {"rw"}
        /\ static_stream.source = "src"
        /\ static_stream.input_options = {"timeout"}
        /\ calls = 2

\* ---- C31 helpers: a template whose only special characters are blanks and
\* whole placeholders, what it reads after substitution, and the blank-separated
\* words of a text
RECURSIVE PlainTemplate(_)
PlainTemplate(s) ==
    \/ s = <<>>
    \/ /\ Head(s) = "{" /\ Len(s) >= 3
       /\ s[2] \in {"source", "id", "name"} /\ s[3] = "}"
       /\ PlainTemplate(SubSeq(s, 4, Len(s)))
    \/ /\ Head(s) \notin {"{", "}", "'", "\"", "\\"}
       /\ PlainTemplate(Tail(s))

RECURSIVE Substituted(_, _)
Substituted(s, ctx) ==
    IF s = <<>> THEN <<>>
    ELSE IF Head(s) = "{" THEN ctx[s[2]] \o Substituted(SubSeq(s, 4, Len(s)), ctx)
    ELSE <<Head(s)>> \o Substituted(Tail(s), ctx)

RECURSIVE Words(_)
Words(s) ==
    IF s = <<>> THEN <<>>
    ELSE IF Head(s) = " " THEN Words(Tail(s))
    ELSE LET blanks == {j \in 1..Len(s) : s[j] = " "}
             n == IF blanks = {} THEN Len(s) ELSE Least(blanks) - 1
         IN <<SubSeq(s, 1, n)>> \o Words(SubSeq(s, n + 1, Len(s)))

PlainText(s) == \A j \in 1..Len(s) : s[j] \notin {"'", "\"", "\\"}

\* the start has been through line 294 with a string template
Prepared ==
    /\ plan.at \in {"popen", "started", "failed"}
    /\ plan.command # NotBuilt

\* ---- C31: for a string command, the placeholders {source}, {id} and {name}
\* are replaced first; with shell false the result is then split into
\* arguments by the POSIX quoting rules (blanks separate, quotes group), so
\* that a value with a blank in it becomes several arguments; with shell true
\* the substituted string is kept whole.
C31_StringCommand ==
    Prepared =>
        LET custom_conf == plan.input.stream_config.custom_ffmpeg
            tpl == custom_conf.command
            src == plan.input.stream_config.source
            ctx == [source |-> src, id |-> <<"1">>, name |-> <<"one">>]
            off == custom_conf.shell \in {"absent", "False"}
            on == custom_conf.shell = "True"
            args == plan.command.value
        IN /\ (PlainTemplate(tpl) /\ PlainText(src) /\ off)
                 => /\ ~ plan.command.raised /\ ~ plan.use_shell
                    /\ args = Words(Substituted(tpl, ctx))
           /\ (PlainTemplate(tpl) /\ on)
                 => /\ ~ plan.command.raised /\ plan.use_shell
                    /\ args = Substituted(tpl, ctx)
           /\ (tpl = TranscodeTemplate /\ src = <<"proto://x">> /\ off)
                 => args = <<<<"transcode">>, <<"-i">>, <<"proto://x">>, <<"out.ts">>>>
           /\ (tpl = TranscodeTemplate /\ src = <<"my", " ", "file">> /\ off)
                 => args = <<<<"transcode">>, <<"-i">>, <<"my">>, <<"file">>,
                             <<"out.ts">>>>
           /\ (tpl = <<"-i", " ", "'", "{", "source", "}", "'">>
               /\ src = <<"my", " ", "file">> /\ off)
                 => args = <<<<"-i">>, <<"my", " ", "file">>>>
           /\ (tpl = <<"-i", " ", "\"", "{", "source", "}", "\"">>
               /\ src = <<"my", " ", "file">> /\ off)
                 => args = <<<<"-i">>, <<"my", " ", "file">>>>

\* the template "transcode -i {source} out.ts" with a source that has a blank
\* in it has been started without a shell, with five arguments
C31_Witness ==
    /\ plan.at = "started"
    /\ plan.input.stream_config.custom_ffmpeg.command = TranscodeTemplate
    /\ plan.input.stream_config.source = <<"my", " ", "file">>
    /\ ~ plan.use_shell
    /\ Len(plan.command.value) = 5

\* the start has been through _apply_hwaccel
HwaccelApplied == plan.at \in {"output", "run", "started"}

\* ---- C32: a hwaccel block with a recognized type gives the flags of that
\* type, followed by the device flag when a device is given; a block with a
\* type that is not recognized gives no argument at all, with or without a
\* device.
C32_HwaccelFlags ==
    (HwaccelApplied /\ plan.input.hwaccel.present
     /\ plan.input.hwaccel.type \notin {"None", ""}) =>
        LET hw_type == plan.input.hwaccel.type
            device == plan.input.hwaccel.device
            device_flag == IF device = "None" THEN <<>>
                           ELSE <<"-hwaccel_device", str(device)>>
        IN IF hw_type \in {"nvidia", "vaapi", "videotoolbox"}
           THEN plan.extra_global_args
                   = <<"-hwaccel", IF hw_type = "nvidia" THEN "cuda" ELSE hw_type>>
                     \o device_flag
           ELSE plan.extra_global_args = <<>>

\* ---- C33: when a process with a segmented output (hls, ll-hls, dash) is
\* started, the output directory of its key exists and is empty, and the
\* step that prepared it changed the directory of no other key.
C33_State ==
    (plan.at = "started" /\ plan.input.stream_config.custom_ffmpeg = NoCommand
     /\ plan.input.output_format \in Segmented) =>
        /\ disk[plan.input.key].exists
        /\ disk[plan.input.key].files = {}

C33_Step ==
    \A k \in PlanKeys : (plan.at # "none" /\ k # plan.input.key) => disk'[k] = disk[k]

C33_FreshDirectoryAtStart == []C33_State /\ [][C33_Step]_vars

\* process h is cached in the registry entry of the key it was spawned for
HeldByRegistry(h) ==
    key_present(hkey[h]) /\ entProc[RUNNING_PROCESSES[hkey[h]]] = h

\* a stop call under way has removed the entry of h and has yet to finish with it
BeingStopped(h) ==
    \E t \in Threads :
        /\ InStop(t) /\ pc[t] \in {"s_poll", "s_term", "s_wait", "s_kill"}
        /\ entProc[frame[t].procData] = h

\* the call that spawned h is about to store it, lines 383-399
BeingStored(h) ==
    \E t \in Threads : InGetOrStart(t) /\ pc[t] = "g_store" /\ frame[t].process = h

\* ---- C34: every process that the supervisor has spawned and that is still
\* alive is cached in the registry entry of its key, or is held by a stop call
\* under way (or by the call that has just spawned it and is about to store it).
C34_NoLiveProcessUnreachable ==
    \A h \in Handles :
        (hkey[h] # NoKey /\ poll_is_None(h))
           => (HeldByRegistry(h) \/ BeingStopped(h) \/ BeingStored(h))

\* ---- C35: stop and cleanup calls that run concurrently and match the same
\* key all complete: none of them raises when it finds the key already
\* removed, and no process is sent terminate() more than once.
C35_ConcurrentStopsComplete ==
    /\ \A t \in Threads : InStop(t) => pc[t] # "raised"
    /\ \A h \in Handles : termCount[h] <= 1

\* no handler, job or call of the supervisor is under way
Quiescent == \A t \in Threads : pc[t] = "idle" /\ req[t].op = "none"

\* ---- C36: once stream 2 has been removed from stream_map by its end timer
\* or by the API and every request has ended, no Process Key of the stream
\* has a process registered and no process spawned for it is running.
C36_NoProcessAfterRemoval ==
    (stream_map[2] = NoDef /\ Quiescent) =>
        /\ \A k \in Keys : (k[1] = 2 /\ key_present(k)) => entProc[RUNNING_PROCESSES[k]] = NoHandle
        /\ \A h \in Handles : (hkey[h] # NoKey /\ hkey[h][1] = 2) => pstate[h] # "running"

\* the locks that thread t holds
LocksHeld(t) == {e \in Entries : lockOwner[e] = t}

\* thread t waits for the lock of an entry
Waiting(t) == pc[t] \in {"g_acquire", "s_acquire"}

\* ---- C37: no thread holds more than one lock; a thread that waits for a
\* lock holds none, and the thread that has the lock works on the same key;
\* every call that a thread has started comes to its end.
C37_State ==
    \A t \in Threads :
        /\ Cardinality(LocksHeld(t)) <= 1
        /\ Waiting(t) =>
              /\ LocksHeld(t) = {}
              /\ \A u \in Threads :
                    lockOwner[frame[t].lockRef] = u => frame[u].key = frame[t].key

C38_ProcessOfOwnDefinition ==
    \A t \in Threads :
        (InGetOrStart(t) /\ pc[t] = "g_exit" /\ frame[t].result # NoHandle)
           => hcfg[frame[t].result] = frame[t].stream_config

\* ---- C39: the end timer of a scheduled entry removes only a definition that
\* the schedule activated: a definition that the API stored under the id stays
\* in stream_map when the timer fires.
C39_Step ==
    \A t \in Threads, i \in MapIds :
        (req[t].op = "deactivate" /\ req[t].sid = i /\ stream_map[i] = AddedDef)
           => stream_map'[i] = AddedDef

C39_TimerKeepsForeignDefinition == [][C39_Step]_vars

\* ---- C40: the schedule never removes a static stream and never stops its
\* processes: an entry with a static id brings no deactivate at load, whether
\* or not its end is past, and no timer; the static definition stays.
C40_StaticStreamUntouched ==
    \A sid \in base_stream_ids :
        /\ stream_map[sid] = StaticDef
        /\ \A j \in JobIds : j[1] = sid => jobs[j] = NoJob
        /\ \A t \in Threads :
              req[t].sid = sid => req[t].op \notin {"activate", "deactivate"}
        /\ \A t \in Threads : InStop(t) => \A n \in 1..Len(frame[t].keys) :
                                              frame[t].keys[n][1] # sid

\* the load is over, a first entry with the static id has an end that was
\* past at load, and the end timer of a second entry with another id has run
C40_Witness ==
    /\ Len(scheduled_streams) = 2
    /\ loader.pos > Len(scheduled_streams)
    /\ scheduled_streams[1].kind = "dict" /\ scheduled_streams[1].schedule = "dict"
    /\ scheduled_streams[1].id \in base_stream_ids
    /\ parse_schedule_datetime(scheduled_streams[1].end) = 0
    /\ scheduled_streams[2].id \notin base_stream_ids
    /\ \E t \in Threads : req[t].op = "deactivate" /\ req[t].at = "done"
                          /\ req[t].def # NoDef

====
